---- MODULE Spec2Model ----
(***************************************************************************)
(* Model of the aspec chunking / merge / validate-repair pipeline          *)
(* (o3-cloud/artifact-specs, cli/).                                        *)
(*                                                                         *)
(* A Go string is modelled as a sequence of bytes; every byte is a         *)
(* one-element TLA+ string.  "a" stands for any ASCII letter, LeadByte and *)
(* ContByte are the two bytes of a two-byte UTF-8 encoded rune.            *)
(***************************************************************************)
EXTENDS Integers, Sequences, FiniteSets, TLC

VARIABLES
    \* ---- chunking.Chunker.ChunkText (tokenizer.go) ----
    text,          \* argument of ChunkText
    maxTokens,     \* Chunker.maxTokens
    chunks,        \* local "chunks" of ChunkText, and its result
    remaining,     \* local "remaining" of ChunkText
    forced,        \* indexes of the chunks that forceSplit produced
    cerr,          \* the error ChunkText returns
    cpc,           \* position inside ChunkText
    \* ---- the completion provider (llm client behind the Complete interface) ----
    calls,         \* every Complete call issued so far, with its outcome
    clientImpl,    \* the implementation behind the client interface: Client or MockClient
    cancelled,     \* whether the caller's context (ctx) has been cancelled
    \* ---- one CompleteStream call (client.go) ----
    sForceJSON,    \* options.ForceJSON
    sCallback,     \* argument "callback": "nil", "set" (a caller's), "print" or "accumulate"
    sOpened,       \* whether CreateChatCompletionStream has been called
    sDeltas,       \* the deltas the callback has been invoked with
    sContent,      \* local "content": the deltas written to the builder
    sRet,          \* what CompleteStream returned: (response, err)
    spc,           \* position inside CompleteStream
    \* ---- chunking.Merger.ProcessChunks (merger.go) ----
    mChunks,       \* argument "chunks" of ProcessChunks
    mSpec,         \* Merger.spec
    mOptions,      \* Merger.options
    mI,            \* loop index i of the strategy being run
    mResult,       \* local "result" of processIncremental (a pointer: <<>> is nil)
    chunkResults,  \* local "chunkResults" of processTwoPass / processTemplateDriven
    mRet,          \* what ProcessChunks returned: (result, err)
    mpc,           \* position inside ProcessChunks
    \* ---- validate.Validator.ValidateAndRetry (validator.go) ----
    vInput,        \* argument "input": the original prompt
    vMaxRetries,   \* argument "maxRetries"
    vAttempt,      \* loop variable "attempt"
    vData,         \* local "data": the most recent payload
    vResult,       \* local "result": the outcome of validating vData
    vRet,          \* what ValidateAndRetry returned: (data, result, err)
    vpc,           \* position inside ValidateAndRetry
    \* ---- what the process shows to its user ----
    stdout,        \* items printed on standard output
    stderr,        \* items printed on standard error (warnings, the error log)
    fileOut,       \* items written to the output file
    \* ---- the extract command: runExtractCommand and main (commands.go, main.go) ----
    flags,         \* the command's flags
    input,         \* the text the input reader returns
    jsonData,      \* local "jsonData"
    response,      \* local "response" (a pointer: the number of the call it came from)
    exitCode,      \* the exit code of the process; -1 while it runs
    epc,           \* position inside runExtractCommand
    \* ---- Chunker.GetEstimatedChunkCount and TokenCounter.CountTokens (tokenizer.go) ----
    gCount,        \* what GetEstimatedChunkCount(text) returned
    gpc,           \* position of the GetEstimatedChunkCount call
    tText,         \* argument of a CountTokens call
    tOther,        \* argument of another CountTokens call
    tRet,          \* what the CountTokens calls returned
    tpc,           \* position of the CountTokens calls
    \* ---- render.Renderer.Render and runRenderCommand (render.go, commands.go) ----
    rCaller,       \* who calls Render: "command" (runRenderCommand) or "api"
    rFlags,        \* the flags of the render command
    rInput,        \* argument "input"
    rOptions,      \* argument "options" (RenderOptions)
    rChunkSize,    \* local "chunkSize"
    rData,         \* local "extractedData"
    rMarkdown,     \* local "markdown"
    rRet,          \* what Render returned: (result, err)
    rpc            \* position inside Render

chunkVars == <<text, maxTokens, chunks, remaining, forced, cerr, cpc>>
mergeVars == <<mChunks, mSpec, mOptions, mI, mResult, chunkResults, mRet, mpc>>
validVars == <<vInput, vMaxRetries, vAttempt, vData, vResult, vRet, vpc>>
outVars == <<stdout, stderr, fileOut>>
extractVars == <<flags, input, jsonData, response, exitCode, epc>>
llmVars == <<clientImpl, cancelled>>
streamVars == <<sForceJSON, sCallback, sOpened, sDeltas, sContent, sRet, spc>>
countVars == <<gCount, gpc, tText, tOther, tRet, tpc>>
renderVars == <<rCaller, rFlags, rInput, rOptions, rChunkSize, rData, rMarkdown, rRet, rpc>>
vars == <<chunkVars, calls, llmVars, streamVars, mergeVars, validVars, outVars, extractVars,
          countVars, renderVars>>

(***************************************************************************)
(* Bounds of the model.                                                    *)
(***************************************************************************)
MaxLen == 12        \* longest input text, in bytes
MaxSpecial == 2     \* most bytes of a text that are not the letter "a"
MaxBudget == 2      \* largest token budget (Chunker.maxTokens)
MaxChunks == 3      \* longest chunk sequence handed to ProcessChunks
MaxRetries == 2     \* largest maxRetries handed to ValidateAndRetry
MaxDeltas == 3      \* most non-empty deltas one stream delivers

(***************************************************************************)
(* Bytes and strings.                                                      *)
(***************************************************************************)
LeadByte == "C3"
ContByte == "A9"
Delimiters == {" ", ".", "\n"}
RuneBytes == {LeadByte, ContByte}

\* unicode.IsSpace restricted to the bytes of the model
IsSpace(b) == b \in {" ", "\n", "\t"}

RECURSIVE TextsWith(_, _, _)
\* all byte strings of length n made of "a" and at most k bytes of the set special
TextsWith(n, k, special) ==
    IF n = 0 THEN {<<>>}
    ELSE {Append(t, "a") : t \in TextsWith(n - 1, k, special)}
         \cup (IF k > 0
               THEN {Append(t, c) : t \in TextsWith(n - 1, k - 1, special), c \in special}
               ELSE {})

\* the input texts: letters with a few delimiters, and letters with a few bytes
\* of multi-byte runes (well-formed or not)
Texts ==
    UNION {TextsWith(n, MaxSpecial, Delimiters) \cup TextsWith(n, MaxSpecial, RuneBytes)
           : n \in 0..MaxLen}
Budgets == 1..MaxBudget

RECURSIVE RuneCountInString(_)
\* utf8.RuneCountInString: a well-formed two-byte sequence is one rune, any
\* other byte (ASCII, or a stray lead / continuation byte) is one rune
RuneCountInString(s) ==
    IF s = <<>> THEN 0
    ELSE IF Head(s) = LeadByte /\ Len(s) >= 2 /\ s[2] = ContByte
         THEN 1 + RuneCountInString(SubSeq(s, 3, Len(s)))
         ELSE 1 + RuneCountInString(Tail(s))

\* strings.Index, 1-based; 0 when sep does not occur
Index(s, sep) ==
    LET hits == {i \in 1..(Len(s) - Len(sep) + 1) : SubSeq(s, i, i + Len(sep) - 1) = sep}
    IN IF hits = {} THEN 0 ELSE CHOOSE i \in hits : \A j \in hits : i <= j

RECURSIVE Split(_, _)
\* strings.Split for a non-empty separator
Split(s, sep) ==
    LET i == Index(s, sep)
    IN IF i = 0 THEN <<s>>
       ELSE <<SubSeq(s, 1, i - 1)>> \o Split(SubSeq(s, i + Len(sep), Len(s)), sep)

RECURSIVE Join(_, _)
\* strings.Join
Join(parts, sep) ==
    IF parts = <<>> THEN <<>>
    ELSE IF Len(parts) = 1 THEN parts[1]
    ELSE parts[1] \o sep \o Join(Tail(parts), sep)

RECURSIVE TrimLeft(_)
TrimLeft(s) == IF s # <<>> /\ IsSpace(Head(s)) THEN TrimLeft(Tail(s)) ELSE s

RECURSIVE TrimRight(_)
TrimRight(s) ==
    IF s # <<>> /\ IsSpace(s[Len(s)]) THEN TrimRight(SubSeq(s, 1, Len(s) - 1)) ELSE s

\* strings.TrimSpace
TrimSpace(s) == TrimRight(TrimLeft(s))

RECURSIVE Concat(_)
\* strings.Builder: the in-order concatenation of the fragments written; a
\* fragment is a TLA+ string
Concat(frags) == IF frags = <<>> THEN "" ELSE Head(frags) \o Concat(Tail(frags))

(***************************************************************************)
(* TokenCounter.CountTokens                                                *)
(***************************************************************************)
charsPerToken == 4

\* CountTokens over the byte length len(text) instead of the rune count
CountTokensByBytes(s) ==
    IF s = <<>> THEN 0
    ELSE ((Len(s) \div charsPerToken) * 11) \div 10

\* int(float64(charCount) / 4.0), then int(float64(tokenEstimate) * 1.1)
CountTokens(s) ==
    IF s = <<>> THEN 0
    ELSE ((RuneCountInString(s) \div charsPerToken) * 11) \div 10

(***************************************************************************)
(* Chunker.tryBoundary / findOptimalChunk / forceSplit                     *)
(***************************************************************************)
RECURSIVE tryBoundaryLoopLate(_, _, _, _, _, _)
\* tryBoundaryLoop with the budget test made on the text accumulated so far
\* instead of on the candidate, so the part that overflows is still taken
tryBoundaryLoopLate(txt, boundary, parts, max, i, current) ==
    IF i >= Len(parts) THEN [chunk |-> current, rest |-> <<>>]
    ELSE
        LET candidate == (IF i > 0 THEN current \o boundary ELSE current) \o parts[i + 1]
        IN IF CountTokens(current) > max
           THEN IF i = 0
                THEN [chunk |-> <<>>, rest |-> txt]
                ELSE [chunk |-> current,
                      rest |-> Join(SubSeq(parts, i + 1, Len(parts)), boundary)]
           ELSE tryBoundaryLoopLate(txt, boundary, parts, max, i + 1, candidate)

RECURSIVE tryBoundaryLoop(_, _, _, _, _, _)
\* the for loop of tryBoundary; i is the 0-based index of the next part
tryBoundaryLoop(txt, boundary, parts, max, i, current) ==
    IF i >= Len(parts) THEN [chunk |-> current, rest |-> <<>>]
    ELSE
        LET candidate == (IF i > 0 THEN current \o boundary ELSE current) \o parts[i + 1]
        IN IF CountTokens(candidate) > max
           THEN IF i = 0
                THEN [chunk |-> <<>>, rest |-> txt]
                ELSE [chunk |-> current,
                      rest |-> Join(SubSeq(parts, i + 1, Len(parts)), boundary)]
           ELSE tryBoundaryLoop(txt, boundary, parts, max, i + 1, candidate)

tryBoundary(txt, boundary, max) ==
    LET parts == Split(txt, boundary)
    IN IF Len(parts) <= 1 THEN [chunk |-> <<>>, rest |-> txt]
       ELSE tryBoundaryLoop(txt, boundary, parts, max, 0, <<>>)

\* the ordered list of semantic boundaries, coarsest first
boundaries ==
    << <<"\n", "\n", "\n">>,
       <<"\n", "\n">>,
       <<"\n">>,
       <<".", " ">>,
       <<"?", " ">>,
       <<"!", " ">>,
       <<",", " ">>,
       <<" ">> >>

RECURSIVE findOptimalLoopLastWins(_, _, _, _)
\* findOptimalLoop with ">=" in the length comparison: of equally long chunks the
\* one of the finest boundary is kept
findOptimalLoopLastWins(txt, max, k, best) ==
    IF k > Len(boundaries) THEN best
    ELSE LET r == tryBoundary(txt, boundaries[k], max)
         IN findOptimalLoopLastWins(txt, max, k + 1,
                IF r.chunk # <<>> /\ Len(r.chunk) >= Len(best.chunk) THEN r ELSE best)

RECURSIVE findOptimalLoop(_, _, _, _)
\* the loop over boundaries of findOptimalChunk; best = (bestChunk, bestRemaining)
findOptimalLoop(txt, max, k, best) ==
    IF k > Len(boundaries) THEN best
    ELSE LET r == tryBoundary(txt, boundaries[k], max)
         IN findOptimalLoop(txt, max, k + 1,
                IF r.chunk # <<>> /\ Len(r.chunk) > Len(best.chunk) THEN r ELSE best)

findOptimalChunk(txt, max) ==
    IF CountTokens(txt) <= max THEN [chunk |-> txt, rest |-> <<>>]
    ELSE findOptimalLoop(txt, max, 1, [chunk |-> <<>>, rest |-> txt])

\* int(float64(maxTokens) * charsPerToken * 0.8): the conversion truncates toward zero
charLimit(max) ==
    IF max >= 0 THEN (max * charsPerToken * 8) \div 10
    ELSE -(((-max) * charsPerToken * 8) \div 10)

\* the backward walk of forceSplit: the byte at 0-based offset cutPoint is txt[cutPoint + 1]
RECURSIVE cutPointWalk(_, _)
cutPointWalk(txt, cutPoint) ==
    IF cutPoint > 0 /\ cutPoint < Len(txt)
    THEN IF IsSpace(txt[cutPoint + 1]) THEN cutPoint ELSE cutPointWalk(txt, cutPoint - 1)
    ELSE cutPoint

\* "text[:cutPoint]" with a negative cutPoint: slice bounds out of range, a run-time panic
forceSplitPanics(txt, max) ==
    /\ Len(txt) > charLimit(max)
    /\ cutPointWalk(txt, charLimit(max)) < 0

\* forceSplit without the hard cut: a walk that reaches 0 cuts at 0
forceSplitNoHardCut(txt, max) ==
    IF Len(txt) <= charLimit(max) THEN [chunk |-> txt, rest |-> <<>>]
    ELSE LET cutPoint == cutPointWalk(txt, charLimit(max))
         IN [chunk |-> SubSeq(txt, 1, cutPoint),
             rest |-> TrimSpace(SubSeq(txt, cutPoint + 1, Len(txt)))]

forceSplit(txt, max) ==
    IF Len(txt) <= charLimit(max) THEN [chunk |-> txt, rest |-> <<>>]
    ELSE LET walked == cutPointWalk(txt, charLimit(max))
             cutPoint == IF walked = 0 THEN charLimit(max) ELSE walked
         IN [chunk |-> SubSeq(txt, 1, cutPoint),
             rest |-> TrimSpace(SubSeq(txt, cutPoint + 1, Len(txt)))]

(***************************************************************************)
(* Chunker.ChunkText as a state machine: entry, one action per iteration   *)
(* of the splitting loop, exit.                                            *)
(***************************************************************************)
\* wholeText with the text trimmed, as the final remainder is described to be
wholeTextTrimmed(txt) == <<TrimSpace(txt)>>

\* the result of ChunkText for a text that fits the budget
wholeText(txt) == <<txt>>

ChunkTextEnter ==
    /\ cpc = "call"
    /\ IF CountTokens(text) <= maxTokens
       THEN /\ chunks' = wholeText(text)
            /\ remaining' = <<>>
            /\ cerr' = "nil"
            /\ cpc' = "done"
       ELSE /\ chunks' = <<>>
            /\ remaining' = text
            /\ cerr' = cerr
            /\ cpc' = "loop"
    /\ UNCHANGED <<text, maxTokens, forced>>
    /\ UNCHANGED <<calls, mergeVars, validVars, outVars, extractVars>>
    /\ UNCHANGED <<llmVars, streamVars, countVars, renderVars>>

\* One iteration of the loop.  A panic inside forceSplit ends the goroutine
\* (cpc = "panic").  An iteration that appends an empty chunk and leaves
\* remaining as it was is repeated by the loop without end (cpc = "diverged").
ChunkTextIterate ==
    /\ cpc = "loop"
    /\ Len(remaining) > 0 /\ CountTokens(remaining) > maxTokens
    /\ LET opt == findOptimalChunk(remaining, maxTokens)
           useForce == opt.chunk = <<>>
           r == IF useForce THEN forceSplit(remaining, maxTokens) ELSE opt
       IN IF useForce /\ forceSplitPanics(remaining, maxTokens)
          THEN /\ cpc' = "panic"
               /\ UNCHANGED <<chunks, remaining, forced>>
          ELSE /\ chunks' = Append(chunks, r.chunk)
               /\ remaining' = r.rest
               /\ forced' = IF useForce THEN forced \cup {Len(chunks) + 1} ELSE forced
               /\ cpc' = IF r.chunk = <<>> /\ r.rest = remaining THEN "diverged" ELSE cpc
    /\ UNCHANGED <<text, maxTokens, cerr>>
    /\ UNCHANGED <<calls, mergeVars, validVars, outVars, extractVars>>
    /\ UNCHANGED <<llmVars, streamVars, countVars, renderVars>>

ChunkTextExit ==
    /\ cpc = "loop"
    /\ ~(Len(remaining) > 0 /\ CountTokens(remaining) > maxTokens)
    /\ chunks' = IF Len(TrimSpace(remaining)) > 0 THEN Append(chunks, remaining) ELSE chunks
    /\ cerr' = "nil"
    /\ cpc' = "done"
    /\ UNCHANGED <<text, maxTokens, remaining, forced>>
    /\ UNCHANGED <<calls, mergeVars, validVars, outVars, extractVars>>
    /\ UNCHANGED <<llmVars, streamVars, countVars, renderVars>>

ChunkNext == ChunkTextEnter \/ ChunkTextIterate \/ ChunkTextExit

(***************************************************************************)
(* The completion provider.  A call either fails (transport, auth, rate    *)
(* limit, model failure) or returns some content; which content is not     *)
(* under the program's control.                                            *)
(***************************************************************************)
ValidPayloads == {"v1"}       \* JSON that conforms to the schema
InvalidPayloads == {"x1"}     \* JSON that violates the schema
NotJSON == {"n1"}             \* content that does not parse as JSON
Payloads == ValidPayloads \cup InvalidPayloads \cup NotJSON

\* the possible outcomes of one Complete call
ProviderOutcomes ==
    {[ok |-> FALSE, content |-> ""]} \cup {[ok |-> TRUE, content |-> c] : c \in Payloads}

\* the outcomes of one Complete call on the client in use.  Client hands ctx to
\* the HTTP request, which fails once ctx is cancelled; MockClient reads neither
\* ctx nor the prompt and always returns its canned response.
Complete ==
    IF clientImpl = "MockClient" THEN {[ok |-> TRUE, content |-> c] : c \in Payloads}
    ELSE IF cancelled THEN {[ok |-> FALSE, content |-> ""]}
    ELSE ProviderOutcomes

\* the record of one client.Complete(ctx, prompt, CompletionOptions{ForceJSON: true});
\* ctxDone tells whether the ctx handed over was already cancelled
CallRecord(prompt, out) ==
    [prompt |-> prompt, forceJSON |-> TRUE, ctxDone |-> cancelled,
     ok |-> out.ok, content |-> out.content]

\* the caller cancels the context it handed to ProcessChunks / ValidateAndRetry
Cancel ==
    /\ ~cancelled
    /\ cancelled' = TRUE
    /\ UNCHANGED <<clientImpl, calls, streamVars, chunkVars, mergeVars, validVars, outVars,
                   extractVars>>
    /\ UNCHANGED <<countVars, renderVars>>

\* the error a failed Complete returns
ProviderError == <<"OpenAI API error">>

(***************************************************************************)
(* Merger: prompts                                                         *)
(***************************************************************************)
StrategyIncremental == "incremental"
StrategyTwoPass == "two-pass"
StrategyTemplateDriven == "template-driven"
KnownStrategies == {StrategyIncremental, StrategyTwoPass, StrategyTemplateDriven}

DefaultMergeInstructions ==
    "Merge the new data with the existing data:\n" \o
    "- Combine arrays by appending new items\n" \o
    "- Update object fields with new information\n" \o
    "- Preserve existing data when not conflicted\n" \o
    "- Use new data to fill in missing fields\n" \o
    "- When data conflicts, prefer the new data"
DefaultConsolidationInstructions ==
    "Consolidate all the partial results into a single comprehensive result:\n" \o
    "- Merge arrays by combining all items\n" \o
    "- Merge objects by combining all fields\n" \o
    "- Remove duplicates where appropriate\n" \o
    "- Ensure the final result follows the schema structure"

schemaTitle(spec) == IF spec.Title = "" THEN spec.Slug ELSE spec.Title

createExtractionPrompt(spec, chunk) ==
    [kind |-> "extraction", title |-> schemaTitle(spec), instructions |-> "",
     existing |-> "", input |-> chunk, results |-> <<>>, schema |-> spec.Schema]

\* createMergePrompt with the custom instructions appended to the default ones
createMergePromptAppending(spec, options, previousJSON, newChunk) ==
    [kind |-> "merge", title |-> schemaTitle(spec),
     instructions |-> DefaultMergeInstructions \o "\n" \o options.Instructions,
     existing |-> previousJSON, input |-> newChunk, results |-> <<>>,
     schema |-> spec.Schema]

createMergePrompt(spec, options, previousJSON, newChunk) ==
    [kind |-> "merge", title |-> schemaTitle(spec),
     instructions |-> IF options.Instructions = ""
                      THEN DefaultMergeInstructions ELSE options.Instructions,
     existing |-> previousJSON, input |-> newChunk, results |-> <<>>,
     schema |-> spec.Schema]

\* createConsolidationPrompt with the schema named by the spec's title instead of embedded
createConsolidationPromptSchemaName(spec, options, jsonResults) ==
    [kind |-> "consolidation", title |-> "",
     instructions |-> IF options.Instructions = ""
                      THEN DefaultConsolidationInstructions ELSE options.Instructions,
     existing |-> "", input |-> <<>>,
     results |-> [i \in 1..Len(jsonResults) |-> [label |-> i, json |-> jsonResults[i]]],
     schema |-> schemaTitle(spec)]

\* createConsolidationPrompt with the results labelled by their 0-based index
createConsolidationPromptZeroBased(spec, options, jsonResults) ==
    [kind |-> "consolidation", title |-> "",
     instructions |-> IF options.Instructions = ""
                      THEN DefaultConsolidationInstructions ELSE options.Instructions,
     existing |-> "", input |-> <<>>,
     results |-> [i \in 1..Len(jsonResults) |-> [label |-> i - 1, json |-> jsonResults[i]]],
     schema |-> spec.Schema]

createConsolidationPrompt(spec, options, jsonResults) ==
    [kind |-> "consolidation", title |-> "",
     instructions |-> IF options.Instructions = ""
                      THEN DefaultConsolidationInstructions ELSE options.Instructions,
     existing |-> "", input |-> <<>>,
     results |-> [i \in 1..Len(jsonResults) |-> [label |-> i, json |-> jsonResults[i]]],
     schema |-> spec.Schema]

(***************************************************************************)
(* Merger: the three helpers that issue one provider call each.  Each      *)
(* takes the outcome of its call and yields (result, err); a pointer is a  *)
(* sequence of length at most one, an error a sequence of message layers   *)
(* (<<>> is nil).  callNo identifies the response kept in Stats.           *)
(***************************************************************************)
\* processSingleChunk with a failed call recorded in the result instead of returned
processSingleChunkSwallow(chunk, index, out, callNo) ==
    [result |-> <<[ChunkIndex |-> index, Content |-> chunk,
                   JSONData |-> out.content, Stats |-> callNo]>>,
     err |-> <<>>]

processSingleChunk(chunk, index, out, callNo) ==
    IF ~out.ok
    THEN [result |-> <<>>, err |-> <<"extraction failed">> \o ProviderError]
    ELSE [result |-> <<[ChunkIndex |-> index, Content |-> chunk,
                        JSONData |-> out.content, Stats |-> callNo]>>,
          err |-> <<>>]

\* mergeWithPrevious with the accumulated JSON kept instead of replaced by the response
mergeWithPreviousKeepsOld(newChunk, chunkIndex, out, callNo) ==
    IF ~out.ok
    THEN [result |-> <<>>, err |-> <<"merge failed">> \o ProviderError]
    ELSE [result |-> <<[ChunkIndex |-> chunkIndex, Content |-> newChunk,
                        JSONData |-> mResult[1].JSONData, Stats |-> callNo]>>,
          err |-> <<>>]

mergeWithPrevious(newChunk, chunkIndex, out, callNo) ==
    IF ~out.ok
    THEN [result |-> <<>>, err |-> <<"merge failed">> \o ProviderError]
    ELSE [result |-> <<[ChunkIndex |-> chunkIndex, Content |-> newChunk,
                        JSONData |-> out.content, Stats |-> callNo]>>,
          err |-> <<>>]

\* singleResult with the shortcut taken for up to two results
singleResultOrPair(results) == Len(results) <= 2

\* "if len(results) == 1": mergeAllResults returns results[0] without a provider call
singleResult(results) == Len(results) = 1

\* the part of mergeAllResults after its provider call
mergeAllResults(out, callNo) ==
    IF ~out.ok
    THEN [result |-> <<>>, err |-> <<"consolidation failed">> \o ProviderError]
    ELSE [result |-> <<[ChunkIndex |-> -1, Content |-> <<"consolidated">>,
                        JSONData |-> out.content, Stats |-> callNo]>>,
          err |-> <<>>]

\* fmt.Errorf(prefix + ": %w", err)
Wrap(prefix, err) == <<prefix>> \o err

(***************************************************************************)
(* Merger.ProcessChunks as a state machine: the dispatch, then one action  *)
(* per provider call of the strategy.                                      *)
(***************************************************************************)
\* strategyEntry with the incremental case dispatched to processTwoPass
strategyEntryAllTwoPass(strategy) ==
    CASE strategy = StrategyIncremental -> "twoPass"
      [] strategy = StrategyTwoPass -> "twoPass"
      [] strategy = StrategyTemplateDriven -> "templateDriven"
      [] OTHER -> "unknown"

\* strategyEntry with the template-driven case dispatched to processIncremental
strategyEntryTemplateIncremental(strategy) ==
    CASE strategy = StrategyIncremental -> "incFirst"
      [] strategy = StrategyTwoPass -> "twoPass"
      [] strategy = StrategyTemplateDriven -> "incFirst"
      [] OTHER -> "unknown"

\* the position ProcessChunks continues at for more than one chunk
strategyEntry(strategy) ==
    CASE strategy = StrategyIncremental -> "incFirst"
      [] strategy = StrategyTwoPass -> "twoPass"
      [] strategy = StrategyTemplateDriven -> "templateDriven"
      [] OTHER -> "unknown"

ProcessChunksEnter ==
    /\ mpc = "call"
    /\ IF Len(mChunks) = 0
       THEN /\ mRet' = [result |-> <<>>, err |-> <<"no chunks to process">>]
            /\ mpc' = "done"
       ELSE IF Len(mChunks) = 1
       THEN /\ mRet' = mRet
            /\ mpc' = "single"
       ELSE IF strategyEntry(mOptions.Strategy) = "unknown"
       THEN /\ mRet' = [result |-> <<>>, err |-> <<"unknown merge strategy", mOptions.Strategy>>]
            /\ mpc' = "done"
       ELSE /\ mRet' = mRet
            /\ mpc' = strategyEntry(mOptions.Strategy)
    /\ mI' = 0
    /\ mResult' = <<>>
    /\ chunkResults' = <<>>
    /\ UNCHANGED <<calls, mChunks, mSpec, mOptions>>
    /\ UNCHANGED <<chunkVars, validVars, outVars, extractVars>>
    /\ UNCHANGED <<llmVars, streamVars, countVars, renderVars>>

\* len(chunks) == 1: return m.processSingleChunk(ctx, chunks[0], 0)
ProcessSingle ==
    /\ mpc = "single"
    /\ \E out \in Complete :
         LET r == processSingleChunk(mChunks[1], 0, out, Len(calls) + 1)
         IN /\ calls' = Append(calls, CallRecord(createExtractionPrompt(mSpec, mChunks[1]), out))
            /\ mRet' = r
            /\ mpc' = "done"
    /\ UNCHANGED <<mChunks, mSpec, mOptions, mI, mResult, chunkResults>>
    /\ UNCHANGED <<chunkVars, validVars, outVars, extractVars>>
    /\ UNCHANGED <<llmVars, streamVars, countVars, renderVars>>

\* processIncremental: the first chunk
IncrementalFirst ==
    /\ mpc = "incFirst"
    /\ \E out \in Complete :
         LET r == processSingleChunk(mChunks[1], 0, out, Len(calls) + 1)
         IN /\ calls' = Append(calls, CallRecord(createExtractionPrompt(mSpec, mChunks[1]), out))
            /\ IF r.err # <<>>
               THEN /\ mRet' = [result |-> <<>>,
                                err |-> Wrap("failed to process first chunk", r.err)]
                    /\ mpc' = "done"
                    /\ UNCHANGED <<mResult, mI>>
               ELSE /\ mResult' = r.result
                    /\ mI' = 1
                    /\ mpc' = "incLoop"
                    /\ mRet' = mRet
    /\ UNCHANGED <<mChunks, mSpec, mOptions, chunkResults>>
    /\ UNCHANGED <<chunkVars, validVars, outVars, extractVars>>
    /\ UNCHANGED <<llmVars, streamVars, countVars, renderVars>>

\* processIncremental: one iteration of "for i := 1; i < len(chunks); i++"
IncrementalMerge ==
    /\ mpc = "incLoop"
    /\ mI < Len(mChunks)
    /\ \E out \in Complete :
         LET prompt == createMergePrompt(mSpec, mOptions, mResult[1].JSONData, mChunks[mI + 1])
             r == mergeWithPrevious(mChunks[mI + 1], mI, out, Len(calls) + 1)
         IN /\ calls' = Append(calls, CallRecord(prompt, out))
            /\ IF r.err # <<>>
               THEN /\ mRet' = [result |-> <<>>,
                                err |-> Wrap("failed to merge chunk " \o ToString(mI), r.err)]
                    /\ mpc' = "done"
                    /\ UNCHANGED <<mResult, mI>>
               ELSE /\ mResult' = r.result
                    /\ mI' = mI + 1
                    /\ UNCHANGED <<mRet, mpc>>
    /\ UNCHANGED <<mChunks, mSpec, mOptions, chunkResults>>
    /\ UNCHANGED <<chunkVars, validVars, outVars, extractVars>>
    /\ UNCHANGED <<llmVars, streamVars, countVars, renderVars>>

\* processIncremental: return result, nil
IncrementalReturn ==
    /\ mpc = "incLoop"
    /\ mI >= Len(mChunks)
    /\ mRet' = [result |-> mResult, err |-> <<>>]
    /\ mpc' = "done"
    /\ UNCHANGED <<calls, mChunks, mSpec, mOptions, mI, mResult, chunkResults>>
    /\ UNCHANGED <<chunkVars, validVars, outVars, extractVars>>
    /\ UNCHANGED <<llmVars, streamVars, countVars, renderVars>>

\* processTwoPass / processTemplateDriven: one iteration of "for i, chunk := range chunks"
ExtractEach(pc) ==
    /\ mpc = pc
    /\ mI < Len(mChunks)
    /\ \E out \in Complete :
         LET r == processSingleChunk(mChunks[mI + 1], mI, out, Len(calls) + 1)
         IN /\ calls' = Append(calls,
                               CallRecord(createExtractionPrompt(mSpec, mChunks[mI + 1]), out))
            /\ IF r.err # <<>>
               THEN /\ mRet' = [result |-> <<>>,
                                err |-> Wrap("failed to process chunk " \o ToString(mI), r.err)]
                    /\ mpc' = "done"
                    /\ UNCHANGED <<chunkResults, mI>>
               ELSE /\ chunkResults' = chunkResults \o r.result
                    /\ mI' = mI + 1
                    /\ UNCHANGED <<mRet, mpc>>
    /\ UNCHANGED <<mChunks, mSpec, mOptions, mResult>>
    /\ UNCHANGED <<chunkVars, validVars, outVars, extractVars>>
    /\ UNCHANGED <<llmVars, streamVars, countVars, renderVars>>

\* the call of mergeAllResults that ends processTwoPass, and through
\* mergeByTemplate processTemplateDriven
MergeAll(pc) ==
    /\ mpc = pc
    /\ mI >= Len(mChunks)
    /\ IF singleResult(chunkResults)
       THEN /\ mRet' = [result |-> <<chunkResults[1]>>, err |-> <<>>]
            /\ calls' = calls
       ELSE \E out \in Complete :
              LET jsonResults == [i \in 1..Len(chunkResults) |-> chunkResults[i].JSONData]
                  r == mergeAllResults(out, Len(calls) + 1)
              IN /\ calls' = Append(calls,
                        CallRecord(createConsolidationPrompt(mSpec, mOptions, jsonResults), out))
                 /\ mRet' = r
    /\ mpc' = "done"
    /\ UNCHANGED <<mChunks, mSpec, mOptions, mI, mResult, chunkResults>>
    /\ UNCHANGED <<chunkVars, validVars, outVars, extractVars>>
    /\ UNCHANGED <<llmVars, streamVars, countVars, renderVars>>

TwoPassExtract == ExtractEach("twoPass")
TwoPassMerge == MergeAll("twoPass")
TemplateExtract == ExtractEach("templateDriven")
TemplateMerge == MergeAll("templateDriven")

MergeNext ==
    \/ ProcessChunksEnter
    \/ ProcessSingle
    \/ IncrementalFirst
    \/ IncrementalMerge
    \/ IncrementalReturn
    \/ TwoPassExtract
    \/ TwoPassMerge
    \/ TemplateExtract
    \/ TemplateMerge

(***************************************************************************)
(* Validator.Validate, createRepairPrompt, FormatErrors                    *)
(***************************************************************************)
\* Validate with the schema check's nil result never recognised
ValidateNeverValid(data) ==
    IF data \in NotJSON
    THEN [Valid |-> FALSE, Errors |-> <<[Path |-> "root", Message |-> "Invalid JSON"]>>]
    ELSE [Valid |-> FALSE, Errors |-> <<[Path |-> "root", Message |-> "Validation failed"]>>]

Validate(data) ==
    IF data \in NotJSON
    THEN [Valid |-> FALSE, Errors |-> <<[Path |-> "root", Message |-> "Invalid JSON"]>>]
    ELSE IF data \in ValidPayloads
    THEN [Valid |-> TRUE, Errors |-> <<>>]
    ELSE [Valid |-> FALSE, Errors |-> <<[Path |-> "root", Message |-> "Validation failed"]>>]

createRepairPrompt(originalPrompt, invalidJSON, result) ==
    [kind |-> "repair", errors |-> result.Errors,
     original |-> originalPrompt, invalid |-> invalidJSON]

\* one line per finding; the path is left out when it is empty or "root"
FormatErrors(result) ==
    IF result.Valid THEN <<"No validation errors">>
    ELSE <<"Validation errors:">> \o
         [i \in 1..Len(result.Errors) |->
            IF result.Errors[i].Path # "" /\ result.Errors[i].Path # "root"
            THEN result.Errors[i].Path \o ": " \o result.Errors[i].Message
            ELSE result.Errors[i].Message]

(***************************************************************************)
(* Validator.ValidateAndRetry as a state machine: the first attempt, one   *)
(* action per iteration of the retry loop, the exhausted return.           *)
(***************************************************************************)
\* exhaustedReturn with the payload dropped, as on the failed-retry return
exhaustedReturnNoData(data, result, maxRetries) ==
    [data |-> <<>>, result |-> <<result>>,
     err |-> <<"validation failed after " \o ToString(maxRetries) \o " retries">>]

\* exhaustedReturn with a nil error, as on the two successful returns
exhaustedReturnNilError(data, result, maxRetries) ==
    [data |-> <<data>>, result |-> <<result>>, err |-> <<>>]

\* what ValidateAndRetry returns once the retries are used up
exhaustedReturn(data, result, maxRetries) ==
    [data |-> <<data>>, result |-> <<result>>,
     err |-> <<"validation failed after " \o ToString(maxRetries) \o " retries">>]

ValidateFirstAttempt ==
    /\ vpc = "call"
    /\ \E out \in Complete :
         /\ calls' = Append(calls, CallRecord(vInput, out))
         /\ IF ~out.ok
            THEN /\ vRet' = [data |-> <<>>, result |-> <<>>,
                             err |-> Wrap("initial completion failed", ProviderError)]
                 /\ vpc' = "done"
                 /\ UNCHANGED <<vData, vResult, vAttempt>>
            ELSE /\ vData' = out.content
                 /\ vResult' = <<Validate(out.content)>>
                 /\ IF Validate(out.content).Valid
                    THEN /\ vRet' = [data |-> <<out.content>>,
                                     result |-> <<Validate(out.content)>>, err |-> <<>>]
                         /\ vpc' = "done"
                         /\ vAttempt' = vAttempt
                    ELSE /\ vAttempt' = 1
                         /\ vpc' = "retry"
                         /\ vRet' = vRet
    /\ UNCHANGED <<vInput, vMaxRetries>>
    /\ UNCHANGED <<chunkVars, mergeVars, outVars, extractVars>>
    /\ UNCHANGED <<llmVars, streamVars, countVars, renderVars>>

ValidateRetry ==
    /\ vpc = "retry"
    /\ vAttempt <= vMaxRetries
    /\ stdout' = Append(stdout, [what |-> "retry notice", data |-> <<vAttempt, vMaxRetries + 1>>])
    /\ \E out \in Complete :
         /\ calls' = Append(calls,
                            CallRecord(createRepairPrompt(vInput, vData, vResult[1]), out))
         /\ IF ~out.ok
            THEN /\ vRet' = [data |-> <<>>, result |-> vResult,
                             err |-> Wrap("retry attempt " \o ToString(vAttempt) \o " failed",
                                          ProviderError)]
                 /\ vpc' = "done"
                 /\ UNCHANGED <<vData, vResult, vAttempt>>
            ELSE /\ vData' = out.content
                 /\ vResult' = <<Validate(out.content)>>
                 /\ IF Validate(out.content).Valid
                    THEN /\ vRet' = [data |-> <<out.content>>,
                                     result |-> <<Validate(out.content)>>, err |-> <<>>]
                         /\ vpc' = "done"
                         /\ vAttempt' = vAttempt
                    ELSE /\ vAttempt' = vAttempt + 1
                         /\ UNCHANGED <<vRet, vpc>>
    /\ UNCHANGED <<vInput, vMaxRetries, stderr, fileOut>>
    /\ UNCHANGED <<chunkVars, mergeVars, extractVars>>
    /\ UNCHANGED <<llmVars, streamVars, countVars, renderVars>>

ValidateExhausted ==
    /\ vpc = "retry"
    /\ vAttempt > vMaxRetries
    /\ vRet' = exhaustedReturn(vData, vResult[1], vMaxRetries)
    /\ vpc' = "done"
    /\ UNCHANGED <<calls, vInput, vMaxRetries, vAttempt, vData, vResult>>
    /\ UNCHANGED <<chunkVars, mergeVars, outVars, extractVars>>
    /\ UNCHANGED <<llmVars, streamVars, countVars, renderVars>>

ValidateNext == ValidateFirstAttempt \/ ValidateRetry \/ ValidateExhausted

(***************************************************************************)
(* The extract command: runExtractCommand, and main's handling of the      *)
(* error it returns.                                                       *)
(***************************************************************************)
\* the flag defaults of extractCmd
DefaultFlags ==
    [maxRetries |-> 2, noValidate |-> TRUE, validate |-> FALSE, compact |-> FALSE,
     stats |-> FALSE, out |-> "", chunkSize |-> 20000,
     mergeStrategy |-> "incremental", mergeInstructions |-> ""]

\* the spec getSpecFromFlags resolves
CommandSpec == [Title |-> "Meeting Summary", Slug |-> "meeting_summary", Schema |-> "SCHEMA"]

\* "if enableValidate { noValidate = false }"
noValidate == IF flags.validate THEN FALSE ELSE flags.noValidate

\* createExtractionPrompt of commands.go
cmdExtractionPrompt(spec, in) ==
    [kind |-> "extraction", title |-> schemaTitle(spec), instructions |-> "",
     existing |-> "", input |-> in, results |-> <<>>, schema |-> spec.Schema]

\* runExtractCommand returns err: main logs it and exits with status 1
ReturnError(err) ==
    /\ stderr' = Append(stderr, [what |-> "error", data |-> err])
    /\ exitCode' = 1
    /\ epc' = "exit"

\* the warning printed before os.Exit(3)
ValidationWarning(result) == [what |-> "validation warning", data |-> FormatErrors(result)]

\* flags, spec resolution, input reading, client creation, and the choice of path
ExtractStart ==
    /\ epc = "start"
    /\ \E setup \in {"ok", "spec not found", "failed to read input",
                      "failed to create LLM client"} :
         IF setup # "ok"
         THEN /\ ReturnError(<<setup>>)
              /\ UNCHANGED <<chunkVars, stdout, fileOut>>
         ELSE IF TrimSpace(input) = <<>>
         THEN /\ ReturnError(<<"input is empty">>)
              /\ UNCHANGED <<chunkVars, stdout, fileOut>>
         ELSE IF CountTokens(input) <= flags.chunkSize
         THEN /\ epc' = "single"
              /\ UNCHANGED <<chunkVars, outVars, exitCode>>
         ELSE \* chunker := chunking.NewChunker(chunkSize); chunker.ChunkText(input)
              /\ text' = input
              /\ maxTokens' = flags.chunkSize
              /\ cpc' = "call"
              /\ epc' = "chunking"
              /\ UNCHANGED <<chunks, remaining, forced, cerr, outVars, exitCode>>
    /\ UNCHANGED <<calls, mergeVars, validVars, flags, input, jsonData, response>>
    /\ UNCHANGED <<llmVars, streamVars, countVars, renderVars>>

\* the single-chunk path without validation
ExtractSingleNoValidate ==
    /\ epc = "single"
    /\ noValidate
    /\ \E out \in Complete :
         /\ calls' = Append(calls, CallRecord(cmdExtractionPrompt(CommandSpec, input), out))
         /\ IF ~out.ok
            THEN /\ ReturnError(Wrap("extraction failed", ProviderError))
                 /\ UNCHANGED <<jsonData, response>>
            ELSE /\ jsonData' = out.content
                 /\ response' = <<Len(calls) + 1>>
                 /\ epc' = "format"
                 /\ UNCHANGED <<stderr, exitCode>>
    /\ UNCHANGED <<chunkVars, mergeVars, validVars, stdout, fileOut, flags, input>>
    /\ UNCHANGED <<llmVars, streamVars, countVars, renderVars>>

\* the single-chunk path with validation: NewValidator, then the call of ValidateAndRetry
ExtractSingleValidate ==
    /\ epc = "single"
    /\ ~noValidate
    /\ \E compiles \in BOOLEAN :
         IF ~compiles
         THEN /\ ReturnError(<<"failed to create validator">>)
              /\ UNCHANGED validVars
         ELSE /\ vInput' = cmdExtractionPrompt(CommandSpec, input)
              /\ vMaxRetries' = flags.maxRetries
              /\ vpc' = "call"
              /\ epc' = "validating"
              /\ UNCHANGED <<vAttempt, vData, vResult, vRet, stderr, exitCode>>
    /\ UNCHANGED <<chunkVars, calls, mergeVars, stdout, fileOut, flags, input, jsonData,
                   response>>
    /\ UNCHANGED <<llmVars, streamVars, countVars, renderVars>>

\* ValidateAndRetry has returned
ExtractAfterValidate ==
    /\ epc = "validating"
    /\ vpc = "done"
    /\ jsonData' = IF vRet.data = <<>> THEN "" ELSE vRet.data[1]
    /\ IF vRet.err # <<>>
       THEN ReturnError(Wrap("extraction failed", vRet.err))
       ELSE IF ~vRet.result[1].Valid
       THEN /\ stderr' = Append(stderr, ValidationWarning(vRet.result[1]))
            /\ exitCode' = 3
            /\ epc' = "exit"
       ELSE /\ epc' = "format"
            /\ UNCHANGED <<stderr, exitCode>>
    /\ UNCHANGED <<chunkVars, calls, mergeVars, validVars, stdout, fileOut, flags, input,
                   response>>
    /\ UNCHANGED <<llmVars, streamVars, countVars, renderVars>>

\* ChunkText has returned: the strategy switch, NewMerger, the call of ProcessChunks
ExtractAfterChunk ==
    /\ epc = "chunking"
    /\ cpc = "done"
    /\ IF flags.mergeStrategy \notin KnownStrategies
       THEN /\ ReturnError(<<"unknown merge strategy", flags.mergeStrategy>>)
            /\ UNCHANGED mergeVars
       ELSE /\ mChunks' = chunks
            /\ mSpec' = CommandSpec
            /\ mOptions' = [Strategy |-> flags.mergeStrategy,
                            Instructions |-> flags.mergeInstructions]
            /\ mpc' = "call"
            /\ epc' = "merging"
            /\ UNCHANGED <<mI, mResult, chunkResults, mRet, stderr, exitCode>>
    /\ UNCHANGED <<chunkVars, calls, validVars, stdout, fileOut, flags, input, jsonData,
                   response>>
    /\ UNCHANGED <<llmVars, streamVars, countVars, renderVars>>

\* ChunkText panicked: the Go run time prints the panic and exits with status 2
ExtractChunkPanic ==
    /\ epc = "chunking"
    /\ cpc = "panic"
    /\ stderr' = Append(stderr, [what |-> "panic", data |-> <<"slice bounds out of range">>])
    /\ exitCode' = 2
    /\ epc' = "exit"
    /\ UNCHANGED <<chunkVars, calls, mergeVars, validVars, stdout, fileOut, flags, input,
                   jsonData, response>>
    /\ UNCHANGED <<llmVars, streamVars, countVars, renderVars>>

\* ProcessChunks has returned: the result, and the validation of the merged payload
ExtractAfterMerge ==
    /\ epc = "merging"
    /\ mpc = "done"
    /\ IF mRet.err # <<>>
       THEN /\ ReturnError(Wrap("failed to process chunks", mRet.err))
            /\ UNCHANGED <<jsonData, response>>
       ELSE /\ jsonData' = mRet.result[1].JSONData
            /\ response' = <<mRet.result[1].Stats>>
            /\ IF noValidate
               THEN /\ epc' = "format"
                    /\ UNCHANGED <<stderr, exitCode>>
               ELSE \E compiles \in BOOLEAN :
                      IF ~compiles
                      THEN ReturnError(<<"failed to create validator">>)
                      ELSE IF ~Validate(mRet.result[1].JSONData).Valid
                      THEN /\ stderr' = Append(stderr,
                                   ValidationWarning(Validate(mRet.result[1].JSONData)))
                           /\ exitCode' = 3
                           /\ epc' = "exit"
                      ELSE /\ epc' = "format"
                           /\ UNCHANGED <<stderr, exitCode>>
    /\ UNCHANGED <<chunkVars, calls, mergeVars, validVars, stdout, fileOut, flags, input>>
    /\ UNCHANGED <<llmVars, streamVars, countVars, renderVars>>

\* json.Unmarshal followed by json.MarshalIndent
Indented(data) == "indented " \o data

\* format the output, write it, show the stats, return nil
ExtractFormatAndWrite ==
    /\ epc = "format"
    /\ IF ~flags.compact /\ jsonData \in NotJSON
       THEN /\ ReturnError(<<"failed to parse extracted JSON">>)
            /\ UNCHANGED <<stdout, fileOut>>
       ELSE LET outputData == IF flags.compact THEN jsonData ELSE Indented(jsonData)
                statsLine == IF flags.stats /\ response # <<>>
                             THEN <<[what |-> "stats", data |-> response]>> ELSE <<>>
            IN IF flags.out # ""
               THEN \E written \in BOOLEAN :
                      IF ~written
                      THEN /\ ReturnError(Wrap("failed to write output",
                                                <<"failed to write output file">>))
                           /\ UNCHANGED <<stdout, fileOut>>
                      ELSE /\ fileOut' = Append(fileOut, [what |-> "payload", data |-> outputData])
                           /\ stderr' = Append(stderr, [what |-> "output written", data |-> flags.out])
                                         \o statsLine
                           /\ exitCode' = 0
                           /\ epc' = "exit"
                           /\ UNCHANGED stdout
               ELSE /\ stdout' = Append(stdout, [what |-> "payload", data |-> outputData])
                    /\ stderr' = stderr \o statsLine
                    /\ exitCode' = 0
                    /\ epc' = "exit"
                    /\ UNCHANGED fileOut
    /\ UNCHANGED <<chunkVars, calls, mergeVars, validVars, flags, input, jsonData, response>>
    /\ UNCHANGED <<llmVars, streamVars, countVars, renderVars>>

ExtractNext ==
    \/ ExtractStart
    \/ ExtractSingleNoValidate
    \/ ExtractSingleValidate
    \/ ExtractAfterValidate
    \/ ExtractAfterChunk
    \/ ExtractChunkPanic
    \/ ExtractAfterMerge
    \/ ExtractFormatAndWrite
    \/ ChunkNext
    \/ MergeNext
    \/ ValidateNext

(***************************************************************************)
(* CompleteStream of the two client implementations.  sRet is (response,   *)
(* err): a pointer is a sequence of length at most one, <<>> is nil.       *)
(***************************************************************************)
\* the deltas MockClient.CompleteStream feeds to the callback
MockWords == <<"Mock", " ", "streaming", " ", "response">>

\* the Delta.Content of one stream response of the provider
StreamDeltas == {"", "d1", "d2"}

\* whether an invocation of the callback returns an error: a caller's callback
\* ("set") may, the two callbacks Render builds ("print", "accumulate") return nil
CallbackFails(callback) == IF callback = "set" THEN BOOLEAN ELSE {FALSE}

\* Client.CompleteStream up to the opening of the stream
ClientCompleteStreamEnter ==
    /\ spc = "call"
    /\ clientImpl = "Client"
    /\ IF sForceJSON
       THEN /\ sRet' = [resp |-> <<>>,
                        err |-> <<"streaming is not compatible with JSON response format">>]
            /\ spc' = "done"
            /\ UNCHANGED sOpened
       ELSE /\ sOpened' = TRUE
            /\ \E opened \in BOOLEAN :
                 IF opened
                 THEN /\ spc' = "recv"
                      /\ UNCHANGED sRet
                 ELSE /\ sRet' = [resp |-> <<>>, err |-> <<"OpenAI stream error">>]
                      /\ spc' = "done"
    /\ UNCHANGED <<sForceJSON, sCallback, sDeltas, sContent>>
    /\ UNCHANGED <<chunkVars, calls, llmVars, mergeVars, validVars, outVars, extractVars>>
    /\ UNCHANGED <<countVars, renderVars>>

\* one iteration of the receive loop that delivers a response with a delta
StreamRecvDelta ==
    /\ spc = "recv"
    /\ Len(sContent) < MaxDeltas
    /\ \E delta \in StreamDeltas :
         IF delta = ""
         THEN UNCHANGED <<sContent, sDeltas, sRet, spc>>
         ELSE /\ sContent' = Append(sContent, delta)
              /\ IF sCallback = "nil"
                 THEN UNCHANGED <<sDeltas, sRet, spc>>
                 ELSE /\ sDeltas' = Append(sDeltas, delta)
                      /\ \E failed \in CallbackFails(sCallback) :
                           IF failed
                           THEN /\ sRet' = [resp |-> <<>>,
                                            err |-> <<"stream callback error", "callback error">>]
                                /\ spc' = "done"
                           ELSE UNCHANGED <<sRet, spc>>
    /\ UNCHANGED <<sForceJSON, sCallback, sOpened>>
    /\ UNCHANGED <<chunkVars, calls, llmVars, mergeVars, validVars, outVars, extractVars>>
    /\ UNCHANGED <<countVars, renderVars>>

\* stream.Recv returns io.EOF: the loop ends and the response is returned
StreamRecvEOF ==
    /\ spc = "recv"
    /\ sRet' = [resp |-> <<[Content |-> sContent]>>, err |-> <<>>]
    /\ spc' = "done"
    /\ UNCHANGED <<sForceJSON, sCallback, sOpened, sDeltas, sContent>>
    /\ UNCHANGED <<chunkVars, calls, llmVars, mergeVars, validVars, outVars, extractVars>>
    /\ UNCHANGED <<countVars, renderVars>>

\* stream.Recv returns another error
StreamRecvError ==
    /\ spc = "recv"
    /\ sRet' = [resp |-> <<>>, err |-> <<"stream receive error">>]
    /\ spc' = "done"
    /\ UNCHANGED <<sForceJSON, sCallback, sOpened, sDeltas, sContent>>
    /\ UNCHANGED <<chunkVars, calls, llmVars, mergeVars, validVars, outVars, extractVars>>
    /\ UNCHANGED <<countVars, renderVars>>

\* MockClient.CompleteStream up to its loop: the response is chosen, options is not read
MockCompleteStreamEnter ==
    /\ spc = "call"
    /\ clientImpl = "MockClient"
    /\ spc' = "words"
    /\ UNCHANGED <<sForceJSON, sCallback, sOpened, sDeltas, sContent, sRet>>
    /\ UNCHANGED <<chunkVars, calls, llmVars, mergeVars, validVars, outVars, extractVars>>
    /\ UNCHANGED <<countVars, renderVars>>

\* one iteration of "for _, word := range words"
MockStreamWord ==
    /\ spc = "words"
    /\ sCallback # "nil"
    /\ Len(sDeltas) < Len(MockWords)
    /\ sDeltas' = Append(sDeltas, MockWords[Len(sDeltas) + 1])
    /\ \E failed \in CallbackFails(sCallback) :
         IF failed
         THEN /\ sRet' = [resp |-> <<>>, err |-> <<"callback error">>]
              /\ spc' = "done"
         ELSE UNCHANGED <<sRet, spc>>
    /\ UNCHANGED <<sForceJSON, sCallback, sOpened, sContent>>
    /\ UNCHANGED <<chunkVars, calls, llmVars, mergeVars, validVars, outVars, extractVars>>
    /\ UNCHANGED <<countVars, renderVars>>

\* MockClient.CompleteStream returns its canned response
MockStreamReturn ==
    /\ spc = "words"
    /\ sCallback = "nil" \/ Len(sDeltas) = Len(MockWords)
    /\ \E canned \in {"Mock response"} \cup Payloads :
         sRet' = [resp |-> <<[Content |-> <<canned>>]>>, err |-> <<>>]
    /\ spc' = "done"
    /\ UNCHANGED <<sForceJSON, sCallback, sOpened, sDeltas, sContent>>
    /\ UNCHANGED <<chunkVars, calls, llmVars, mergeVars, validVars, outVars, extractVars>>
    /\ UNCHANGED <<countVars, renderVars>>

StreamNext ==
    \/ ClientCompleteStreamEnter
    \/ StreamRecvDelta
    \/ StreamRecvEOF
    \/ StreamRecvError
    \/ MockCompleteStreamEnter
    \/ MockStreamWord
    \/ MockStreamReturn

(***************************************************************************)
(* Renderer.Render (render package) and the render command that calls it:  *)
(* runRenderCommand and main's handling of the error it returns.           *)
(***************************************************************************)
\* "chunkSize = 20000 // Default chunk size"
DefaultChunkSize == 20000

\* the flag defaults of renderCmd
DefaultRenderFlags ==
    [saveJSON |-> FALSE, stats |-> FALSE, stream |-> TRUE, noStream |-> FALSE,
     noValidate |-> TRUE, validate |-> FALSE, out |-> "", chunkSize |-> DefaultChunkSize,
     mergeStrategy |-> "incremental", mergeInstructions |-> ""]

\* RenderOptions{}: every field at its zero value
ZeroRenderOptions ==
    [SaveJSON |-> FALSE, OutputPath |-> "", ShowStats |-> FALSE, StreamOutput |-> FALSE,
     NoValidate |-> FALSE, ChunkSize |-> 0, MergeStrategy |-> "", MergeInstructions |-> ""]

\* the RenderOptions literal of runRenderCommand: five fields are set from the
\* flags, ChunkSize, MergeStrategy and MergeInstructions are left at zero
commandRenderOptions(f) ==
    [ZeroRenderOptions EXCEPT
        !.SaveJSON = f.saveJSON,
        !.OutputPath = f.out,
        !.ShowStats = f.stats,
        !.StreamOutput = IF f.noStream THEN FALSE ELSE f.stream,
        !.NoValidate = IF f.validate THEN FALSE ELSE f.noValidate]

\* "chunkSize := options.ChunkSize; if chunkSize <= 0 { chunkSize = 20000 }"
renderChunkSize(options) ==
    IF options.ChunkSize <= 0 THEN DefaultChunkSize ELSE options.ChunkSize

\* "strategy := options.MergeStrategy; if strategy == "" { strategy = "incremental" }"
renderStrategy(options) ==
    IF options.MergeStrategy = "" THEN "incremental" ELSE options.MergeStrategy

\* createVerbalizationPrompt: the prompt carries the extracted payload
createVerbalizationPrompt(data) ==
    [kind |-> "verbalization", title |-> "", instructions |-> "",
     existing |-> data, input |-> <<>>, results |-> <<>>, schema |-> ""]

\* the record of one client.Complete(ctx, prompt, CompletionOptions{})
PlainCallRecord(prompt, out) == [CallRecord(prompt, out) EXCEPT !.forceJSON = FALSE]

\* Render returns (nil, err)
RenderReturnError(err) ==
    /\ rRet' = [result |-> <<>>, err |-> err]
    /\ rpc' = "done"

\* runRenderCommand up to the call of Render: spec resolution, flags, input
\* reading, client and renderer creation, the RenderOptions literal
RunRenderCommand ==
    /\ rpc = "command"
    /\ \E setup \in {"ok", "spec not found", "failed to read input",
                      "failed to create LLM client", "failed to create renderer"} :
         IF setup # "ok" \/ TrimSpace(rInput) = <<>>
         THEN /\ stderr' = Append(stderr,
                     [what |-> "error",
                      data |-> IF setup # "ok" THEN <<setup>> ELSE <<"input is empty">>])
              /\ exitCode' = 1
              /\ rpc' = "exit"
              /\ UNCHANGED rOptions
         ELSE /\ rOptions' = commandRenderOptions(rFlags)
              /\ rpc' = "call"
              /\ UNCHANGED <<stderr, exitCode>>
    /\ UNCHANGED <<rCaller, rFlags, rInput, rChunkSize, rData, rMarkdown, rRet>>
    /\ UNCHANGED <<stdout, fileOut, flags, input, jsonData, response, epc>>
    /\ UNCHANGED <<chunkVars, calls, llmVars, streamVars, mergeVars, validVars, countVars>>

\* Render up to the choice between the single-chunk and the chunked path
RenderEnter ==
    /\ rpc = "call"
    /\ IF TrimSpace(rInput) = <<>>
       THEN /\ RenderReturnError(<<"input is empty">>)
            /\ UNCHANGED <<rChunkSize, chunkVars>>
       ELSE /\ rChunkSize' = renderChunkSize(rOptions)
            /\ UNCHANGED rRet
            /\ IF CountTokens(rInput) <= renderChunkSize(rOptions)
               THEN /\ rpc' = "single"
                    /\ UNCHANGED chunkVars
               ELSE \* chunker := chunking.NewChunker(chunkSize); chunker.ChunkText(input)
                    /\ text' = rInput
                    /\ maxTokens' = renderChunkSize(rOptions)
                    /\ cpc' = "call"
                    /\ rpc' = "chunking"
                    /\ UNCHANGED <<chunks, remaining, forced, cerr>>
    /\ UNCHANGED <<rCaller, rFlags, rInput, rOptions, rData, rMarkdown>>
    /\ UNCHANGED <<calls, llmVars, streamVars, mergeVars, validVars, outVars, extractVars,
                   countVars>>

\* the single-chunk path without validation
RenderSingleNoValidate ==
    /\ rpc = "single"
    /\ rOptions.NoValidate
    /\ \E out \in Complete :
         /\ calls' = Append(calls, CallRecord(cmdExtractionPrompt(CommandSpec, rInput), out))
         /\ IF ~out.ok
            THEN /\ RenderReturnError(Wrap("extraction failed", ProviderError))
                 /\ UNCHANGED rData
            ELSE /\ rData' = out.content
                 /\ rpc' = "verbalize"
                 /\ UNCHANGED rRet
    /\ UNCHANGED <<rCaller, rFlags, rInput, rOptions, rChunkSize, rMarkdown>>
    /\ UNCHANGED <<chunkVars, llmVars, streamVars, mergeVars, validVars, outVars, extractVars,
                   countVars>>

\* the single-chunk path with validation: the call of ValidateAndRetry with 2 retries
RenderSingleValidate ==
    /\ rpc = "single"
    /\ ~rOptions.NoValidate
    /\ vInput' = cmdExtractionPrompt(CommandSpec, rInput)
    /\ vMaxRetries' = 2
    /\ vpc' = "call"
    /\ rpc' = "validating"
    /\ UNCHANGED <<vAttempt, vData, vResult, vRet>>
    /\ UNCHANGED <<rCaller, rFlags, rInput, rOptions, rChunkSize, rData, rMarkdown, rRet>>
    /\ UNCHANGED <<chunkVars, calls, llmVars, streamVars, mergeVars, outVars, extractVars,
                   countVars>>

\* ValidateAndRetry has returned
RenderAfterValidate ==
    /\ rpc = "validating"
    /\ vpc = "done"
    /\ IF vRet.err # <<>>
       THEN /\ RenderReturnError(Wrap("extraction failed", vRet.err))
            /\ UNCHANGED <<rData, stderr>>
       ELSE /\ rData' = vRet.data[1]
            /\ stderr' = IF ~vRet.result[1].Valid
                         THEN Append(stderr, ValidationWarning(vRet.result[1]))
                         ELSE stderr
            /\ rpc' = "verbalize"
            /\ UNCHANGED rRet
    /\ UNCHANGED <<rCaller, rFlags, rInput, rOptions, rChunkSize, rMarkdown>>
    /\ UNCHANGED <<stdout, fileOut>>
    /\ UNCHANGED <<chunkVars, calls, llmVars, streamVars, mergeVars, validVars, extractVars,
                   countVars>>

\* ChunkText has returned: the strategy switch, NewMerger, the call of ProcessChunks
RenderAfterChunk ==
    /\ rpc = "chunking"
    /\ cpc = "done"
    /\ IF renderStrategy(rOptions) \notin KnownStrategies
       THEN /\ RenderReturnError(<<"unknown merge strategy", renderStrategy(rOptions)>>)
            /\ UNCHANGED mergeVars
       ELSE /\ mChunks' = chunks
            /\ mSpec' = CommandSpec
            /\ mOptions' = [Strategy |-> renderStrategy(rOptions),
                            Instructions |-> rOptions.MergeInstructions]
            /\ mpc' = "call"
            /\ rpc' = "merging"
            /\ UNCHANGED <<mI, mResult, chunkResults, mRet, rRet>>
    /\ UNCHANGED <<rCaller, rFlags, rInput, rOptions, rChunkSize, rData, rMarkdown>>
    /\ UNCHANGED <<chunkVars, calls, llmVars, streamVars, validVars, outVars, extractVars,
                   countVars>>

\* ProcessChunks has returned: the result, and the validation of the merged
\* payload, which only warns
RenderAfterMerge ==
    /\ rpc = "merging"
    /\ mpc = "done"
    /\ IF mRet.err # <<>>
       THEN /\ RenderReturnError(Wrap("failed to process chunks", mRet.err))
            /\ UNCHANGED <<rData, stderr>>
       ELSE /\ rData' = mRet.result[1].JSONData
            /\ stderr' = IF ~rOptions.NoValidate /\ ~Validate(mRet.result[1].JSONData).Valid
                         THEN Append(stderr,
                                     ValidationWarning(Validate(mRet.result[1].JSONData)))
                         ELSE stderr
            /\ rpc' = "verbalize"
            /\ UNCHANGED rRet
    /\ UNCHANGED <<rCaller, rFlags, rInput, rOptions, rChunkSize, rMarkdown>>
    /\ UNCHANGED <<stdout, fileOut>>
    /\ UNCHANGED <<chunkVars, calls, llmVars, streamVars, mergeVars, validVars, extractVars,
                   countVars>>

\* the verbalization step.  Streaming: the callback is built and CompleteStream
\* is called.  Otherwise Complete is called and markdownResponse.Content is read
\* before err is tested: after a failed call markdownResponse is nil and the
\* read is a nil pointer dereference, a run-time panic (exit status 2 of the
\* command).
RenderVerbalize ==
    /\ rpc = "verbalize"
    /\ IF rOptions.StreamOutput
       THEN /\ sForceJSON' = FALSE
            /\ sCallback' = IF rOptions.ShowStats THEN "accumulate" ELSE "print"
            /\ sOpened' = FALSE
            /\ sDeltas' = <<>>
            /\ sContent' = <<>>
            /\ sRet' = [resp |-> <<>>, err |-> <<>>]
            /\ spc' = "call"
            /\ rpc' = "streaming"
            /\ UNCHANGED <<calls, rMarkdown, stderr, exitCode>>
       ELSE /\ UNCHANGED streamVars
            /\ \E out \in Complete :
                 /\ calls' = Append(calls,
                                    PlainCallRecord(createVerbalizationPrompt(rData), out))
                 /\ IF ~out.ok
                    THEN /\ rpc' = "panic"
                         /\ stderr' = Append(stderr,
                                [what |-> "panic",
                                 data |-> <<"invalid memory address or nil pointer dereference">>])
                         /\ exitCode' = IF rCaller = "command" THEN 2 ELSE exitCode
                         /\ UNCHANGED rMarkdown
                    ELSE /\ rMarkdown' = out.content
                         /\ rpc' = "save"
                         /\ UNCHANGED <<stderr, exitCode>>
    /\ UNCHANGED <<rCaller, rFlags, rInput, rOptions, rChunkSize, rData, rRet>>
    /\ UNCHANGED <<stdout, fileOut, flags, input, jsonData, response, epc>>
    /\ UNCHANGED <<chunkVars, llmVars, mergeVars, validVars, countVars>>

\* CompleteStream has returned.  The "print" callback has printed every delta
\* it was given; the "accumulate" callback has appended it to markdown.
RenderAfterStream ==
    /\ rpc = "streaming"
    /\ spc = "done"
    /\ stdout' = IF sCallback = "print"
                 THEN stdout \o [i \in 1..Len(sDeltas) |-> [what |-> "delta", data |-> sDeltas[i]]]
                 ELSE stdout
    /\ rMarkdown' = IF sCallback = "accumulate" THEN Concat(sDeltas) ELSE ""
    /\ IF sRet.err # <<>>
       THEN RenderReturnError(Wrap("verbalization failed", sRet.err))
       ELSE /\ rpc' = "save"
            /\ UNCHANGED rRet
    /\ UNCHANGED <<rCaller, rFlags, rInput, rOptions, rChunkSize, rData>>
    /\ UNCHANGED <<stderr, fileOut>>
    /\ UNCHANGED <<chunkVars, calls, llmVars, streamVars, mergeVars, validVars, extractVars,
                   countVars>>

\* the RenderResult, saveJSON, and the writing of the markdown
RenderSaveAndWrite ==
    /\ rpc = "save"
    /\ \E jsonWritten, written \in BOOLEAN :
         LET result == [JSON |-> rData, Markdown |-> rMarkdown,
                        JSONPath |-> IF ~rOptions.SaveJSON THEN ""
                                     ELSE IF rOptions.OutputPath # "" THEN "out.json path"
                                     ELSE "./out.json",
                        Stats |-> IF rOptions.StreamOutput THEN sRet.resp ELSE <<Len(calls)>>]
             saved == IF rOptions.SaveJSON
                      THEN <<[what |-> "json", data |-> Indented(rData)]>> ELSE <<>>
         IN IF rOptions.SaveJSON /\ rData \in NotJSON
            THEN /\ RenderReturnError(Wrap("failed to save JSON",
                                           <<"failed to unmarshal JSON for formatting">>))
                 /\ UNCHANGED <<stdout, fileOut>>
            ELSE IF rOptions.SaveJSON /\ ~jsonWritten
            THEN /\ RenderReturnError(Wrap("failed to save JSON", <<"failed to write JSON file">>))
                 /\ UNCHANGED <<stdout, fileOut>>
            ELSE IF rOptions.OutputPath # "" /\ ~rOptions.StreamOutput
            THEN IF ~written
                 THEN /\ RenderReturnError(Wrap("failed to write markdown output",
                                                <<"failed to write output file">>))
                      /\ fileOut' = fileOut \o saved
                      /\ UNCHANGED stdout
                 ELSE /\ fileOut' = (fileOut \o saved)
                                      \o <<[what |-> "markdown", data |-> rMarkdown]>>
                      /\ rRet' = [result |-> <<result>>, err |-> <<>>]
                      /\ rpc' = "done"
                      /\ UNCHANGED stdout
            ELSE /\ fileOut' = fileOut \o saved
                 /\ stdout' = IF ~rOptions.StreamOutput
                              THEN Append(stdout, [what |-> "markdown", data |-> rMarkdown])
                              ELSE stdout
                 /\ rRet' = [result |-> <<result>>, err |-> <<>>]
                 /\ rpc' = "done"
    /\ UNCHANGED <<rCaller, rFlags, rInput, rOptions, rChunkSize, rData, rMarkdown>>
    /\ UNCHANGED stderr
    /\ UNCHANGED <<chunkVars, calls, llmVars, streamVars, mergeVars, validVars, extractVars,
                   countVars>>

\* Render has returned to runRenderCommand: the error is wrapped and main logs
\* it and exits with status 1; otherwise the stats are shown and nil is returned
RenderCommandReturn ==
    /\ rpc = "done"
    /\ rCaller = "command"
    /\ IF rRet.err # <<>>
       THEN /\ stderr' = Append(stderr, [what |-> "error", data |-> Wrap("render failed", rRet.err)])
            /\ exitCode' = 1
       ELSE /\ stderr' = IF rOptions.ShowStats /\ rRet.result[1].Stats # <<>>
                         THEN Append(stderr, [what |-> "stats", data |-> rRet.result[1].Stats])
                         ELSE stderr
            /\ exitCode' = 0
    /\ rpc' = "exit"
    /\ UNCHANGED <<rCaller, rFlags, rInput, rOptions, rChunkSize, rData, rMarkdown, rRet>>
    /\ UNCHANGED <<stdout, fileOut, flags, input, jsonData, response, epc>>
    /\ UNCHANGED <<chunkVars, calls, llmVars, streamVars, mergeVars, validVars, countVars>>

RenderNext ==
    \/ RunRenderCommand
    \/ RenderEnter
    \/ RenderSingleNoValidate
    \/ RenderSingleValidate
    \/ RenderAfterValidate
    \/ RenderAfterChunk
    \/ RenderAfterMerge
    \/ RenderVerbalize
    \/ RenderAfterStream
    \/ RenderSaveAndWrite
    \/ RenderCommandReturn
    \/ ChunkNext
    \/ MergeNext
    \/ ValidateNext
    \/ StreamNext

(***************************************************************************)
(* Chunker.GetEstimatedChunkCount and TokenCounter.CountTokens, each as a  *)
(* call that returns.                                                      *)
(***************************************************************************)
\* GetEstimatedChunkCount without the early return for a text within the budget
GetEstimatedChunkCountCeilOnly(txt, max) == (CountTokens(txt) + max - 1) \div max

GetEstimatedChunkCount(txt, max) ==
    IF CountTokens(txt) <= max THEN 1
    ELSE (CountTokens(txt) + max - 1) \div max

\* c.GetEstimatedChunkCount(text) on a Chunker with budget maxTokens
GetEstimatedChunkCountCall ==
    /\ gpc = "call"
    /\ gCount' = GetEstimatedChunkCount(text, maxTokens)
    /\ gpc' = "done"
    /\ UNCHANGED <<tText, tOther, tRet, tpc>>
    /\ UNCHANGED <<chunkVars, calls, llmVars, streamVars, mergeVars, validVars, outVars,
                   extractVars, renderVars>>

\* tc.CountTokens(tText) twice and tc.CountTokens(tOther) once, on one TokenCounter
CountTokensCalls ==
    /\ tpc = "call"
    /\ tRet' = [first |-> CountTokens(tText), again |-> CountTokens(tText),
                other |-> CountTokens(tOther)]
    /\ tpc' = "done"
    /\ UNCHANGED <<tText, tOther, gCount, gpc>>
    /\ UNCHANGED <<chunkVars, calls, llmVars, streamVars, mergeVars, validVars, outVars,
                   extractVars, renderVars>>

(***************************************************************************)
(* Idle components and the specifications of the single components.        *)
(***************************************************************************)
ChunkerIdle ==
    /\ text = <<>>
    /\ maxTokens = 1
    /\ chunks = <<>>
    /\ remaining = <<>>
    /\ forced = {}
    /\ cerr = "none"
    /\ cpc = "idle"

MergerIdle ==
    /\ mChunks = <<>>
    /\ mSpec = [Title |-> "", Slug |-> "", Schema |-> ""]
    /\ mOptions = [Strategy |-> "", Instructions |-> ""]
    /\ mI = 0
    /\ mResult = <<>>
    /\ chunkResults = <<>>
    /\ mRet = [result |-> <<>>, err |-> <<>>]
    /\ mpc = "idle"

ValidatorIdle ==
    /\ vInput = createExtractionPrompt([Title |-> "", Slug |-> "", Schema |-> ""], <<>>)
    /\ vMaxRetries = 0
    /\ vAttempt = 0
    /\ vData = ""
    /\ vResult = <<>>
    /\ vRet = [data |-> <<>>, result |-> <<>>, err |-> <<>>]
    /\ vpc = "idle"

NoOutput ==
    /\ stdout = <<>>
    /\ stderr = <<>>
    /\ fileOut = <<>>

\* the client of the command: llm.NewClient, called with context.Background()
RealClient ==
    /\ clientImpl = "Client"
    /\ cancelled = FALSE

StreamIdle ==
    /\ sForceJSON = FALSE
    /\ sCallback = "nil"
    /\ sOpened = FALSE
    /\ sDeltas = <<>>
    /\ sContent = <<>>
    /\ sRet = [resp |-> <<>>, err |-> <<>>]
    /\ spc = "idle"

ExtractIdle ==
    /\ flags = DefaultFlags
    /\ input = <<>>
    /\ jsonData = ""
    /\ response = <<>>
    /\ exitCode = -1
    /\ epc = "idle"

CounterIdle ==
    /\ gCount = 0
    /\ gpc = "idle"
    /\ tText = <<>>
    /\ tOther = <<>>
    /\ tRet = [first |-> 0, again |-> 0, other |-> 0]
    /\ tpc = "idle"

RenderIdle ==
    /\ rCaller = "api"
    /\ rFlags = DefaultRenderFlags
    /\ rInput = <<>>
    /\ rOptions = ZeroRenderOptions
    /\ rChunkSize = 0
    /\ rData = ""
    /\ rMarkdown = ""
    /\ rRet = [result |-> <<>>, err |-> <<>>]
    /\ rpc = "idle"

\* ChunkText called on any text with any budget
InitChunk ==
    /\ text \in Texts
    /\ maxTokens \in Budgets
    /\ chunks = <<>>
    /\ remaining = <<>>
    /\ forced = {}
    /\ cerr = "none"
    /\ cpc = "call"
    /\ calls = <<>>
    /\ MergerIdle
    /\ ValidatorIdle
    /\ NoOutput
    /\ CounterIdle
    /\ RenderIdle
    /\ ExtractIdle
    /\ RealClient
    /\ StreamIdle

SpecChunk == InitChunk /\ [][ChunkNext]_vars

\* a caller calls ChunkText on any text with any budget
ChunkTextCall ==
    /\ cpc = "idle"
    /\ text' \in Texts
    /\ maxTokens' \in Budgets
    /\ cpc' = "call"
    /\ UNCHANGED <<chunks, remaining, forced, cerr>>
    /\ UNCHANGED <<calls, llmVars, streamVars, mergeVars, validVars, outVars, extractVars>>
    /\ UNCHANGED <<countVars, renderVars>>

InitChunkFair ==
    /\ ChunkerIdle
    /\ calls = <<>>
    /\ RealClient
    /\ StreamIdle
    /\ MergerIdle
    /\ ValidatorIdle
    /\ NoOutput
    /\ CounterIdle
    /\ RenderIdle
    /\ ExtractIdle

ChunkFairNext == ChunkTextCall \/ ChunkNext

\* ChunkNext can take a step exactly at these positions: the entry test always
\* moves on, and inside the loop either the iteration or the exit applies
ChunkTextRunning == cpc \in {"call", "loop"}

\* ChunkText is straight-line code around one loop: once called, it takes its
\* next step whenever it has one.  This is WF_vars(ChunkNext) with ENABLED
\* <<ChunkNext>>_vars written out as ChunkTextRunning.
ChunkTextFairness == []<>(~ChunkTextRunning) \/ []<><<ChunkNext>>_vars

SpecChunkFair == InitChunkFair /\ [][ChunkFairNext]_vars /\ ChunkTextFairness

\* a paragraph of n bytes: words of w letters separated by single spaces
Para(n, w) == [i \in 1..n |-> IF i % (w + 1) = 0 /\ i < n THEN " " ELSE "a"]

\* the paragraph break "\n\n"
BlankLine == <<"\n", "\n">>

\* word lengths of the paragraphs; with the longest a paragraph is a single word
WordLens == {4, 9, 52}

\* the paragraphs whose estimate is within a budget of 10 tokens
Paragraphs == {p \in {Para(n, w) : n \in 1..52, w \in WordLens} : CountTokens(p) <= 10}

\* two paragraphs separated by a blank line, with a total estimate of 13 tokens
ParagraphPairs ==
    {t \in {p1 \o BlankLine \o p2 : p1 \in Paragraphs, p2 \in Paragraphs} :
        CountTokens(t) = 13}

\* ChunkText called with a budget of 10 tokens on two such paragraphs
InitParagraphs ==
    /\ text \in ParagraphPairs
    /\ maxTokens = 10
    /\ chunks = <<>>
    /\ remaining = <<>>
    /\ forced = {}
    /\ cerr = "none"
    /\ cpc = "call"
    /\ calls = <<>>
    /\ MergerIdle
    /\ ValidatorIdle
    /\ NoOutput
    /\ CounterIdle
    /\ RenderIdle
    /\ ExtractIdle
    /\ RealClient
    /\ StreamIdle

SpecParagraphs == InitParagraphs /\ [][ChunkNext]_vars

\* the specs, strategies and chunk sequences ProcessChunks is called with
SampleSpecs ==
    {[Title |-> "Meeting Summary", Slug |-> "meeting_summary", Schema |-> "SCHEMA"],
     [Title |-> "", Slug |-> "risk_summary", Schema |-> "RISK SCHEMA"]}
StrategyValues == KnownStrategies \cup {"bogus"}
InstructionValues == {"", "custom instructions"}
SampleChunks == {<<"a">>, <<"b">>}
ChunkSeqs == UNION {[1..n -> SampleChunks] : n \in 0..MaxChunks}

InitMerge ==
    /\ ChunkerIdle
    /\ calls = <<>>
    /\ mChunks \in ChunkSeqs
    /\ mSpec \in SampleSpecs
    /\ mOptions \in [Strategy : StrategyValues, Instructions : InstructionValues]
    /\ mI = 0
    /\ mResult = <<>>
    /\ chunkResults = <<>>
    /\ mRet = [result |-> <<>>, err |-> <<>>]
    /\ mpc = "call"
    /\ ValidatorIdle
    /\ NoOutput
    /\ CounterIdle
    /\ RenderIdle
    /\ ExtractIdle
    /\ RealClient
    /\ StreamIdle

SpecMerge == InitMerge /\ [][MergeNext]_vars

\* ValidateAndRetry called with an extraction prompt and any retry bound
InitValidate ==
    /\ ChunkerIdle
    /\ MergerIdle
    /\ calls = <<>>
    /\ \E spec \in SampleSpecs, chunk \in SampleChunks :
         vInput = createExtractionPrompt(spec, chunk)
    /\ vMaxRetries \in 0..MaxRetries
    /\ vAttempt = 0
    /\ vData = ""
    /\ vResult = <<>>
    /\ vRet = [data |-> <<>>, result |-> <<>>, err |-> <<>>]
    /\ vpc = "call"
    /\ NoOutput
    /\ CounterIdle
    /\ RenderIdle
    /\ ExtractIdle
    /\ RealClient
    /\ StreamIdle

SpecValidate == InitValidate /\ [][ValidateNext]_vars

A(n) == [i \in 1..n |-> "a"]

\* inputs of the extract command: empty after trimming, within the smallest budget,
\* and oversized ones that ChunkText cuts into one, two and three chunks
ExtractInputs ==
    { <<" ">>,
      A(3),
      A(7) \o <<" ", " ">>,
      A(4) \o <<" ">> \o A(4),
      A(4) \o <<" ">> \o A(4) \o <<" ">> \o A(4) }

\* the values of --chunk-size: the flag is an int, so zero and negative values parse
ChunkSizes == {-1, 0} \cup Budgets

FlagValues ==
    [maxRetries : 0..MaxRetries, noValidate : BOOLEAN, validate : BOOLEAN,
     compact : BOOLEAN, stats : BOOLEAN, out : {"", "out.json"}, chunkSize : ChunkSizes,
     mergeStrategy : StrategyValues, mergeInstructions : InstructionValues]

InitExtract ==
    /\ ChunkerIdle
    /\ MergerIdle
    /\ ValidatorIdle
    /\ NoOutput
    /\ CounterIdle
    /\ RenderIdle
    /\ calls = <<>>
    /\ flags \in FlagValues
    /\ input \in ExtractInputs
    /\ jsonData = ""
    /\ response = <<>>
    /\ exitCode = -1
    /\ epc = "start"
    /\ RealClient
    /\ StreamIdle

SpecExtract == InitExtract /\ [][ExtractNext]_vars

\* the implementations of the client interface
ClientImpls == {"Client", "MockClient"}

\* ProcessChunks or ValidateAndRetry called with either client and a context
\* the caller may cancel at any moment
InitCancel ==
    /\ ChunkerIdle
    /\ calls = <<>>
    /\ clientImpl \in ClientImpls
    /\ cancelled = FALSE
    /\ StreamIdle
    /\ \/ /\ mChunks \in ChunkSeqs
          /\ mSpec \in SampleSpecs
          /\ mOptions \in [Strategy : KnownStrategies, Instructions : {""}]
          /\ mI = 0
          /\ mResult = <<>>
          /\ chunkResults = <<>>
          /\ mRet = [result |-> <<>>, err |-> <<>>]
          /\ mpc = "call"
          /\ ValidatorIdle
       \/ /\ MergerIdle
          /\ \E spec \in SampleSpecs, chunk \in SampleChunks :
               vInput = createExtractionPrompt(spec, chunk)
          /\ vMaxRetries \in 0..MaxRetries
          /\ vAttempt = 0
          /\ vData = ""
          /\ vResult = <<>>
          /\ vRet = [data |-> <<>>, result |-> <<>>, err |-> <<>>]
          /\ vpc = "call"
    /\ NoOutput
    /\ CounterIdle
    /\ RenderIdle
    /\ ExtractIdle

CancelNext == MergeNext \/ ValidateNext \/ Cancel

SpecCancel == InitCancel /\ [][CancelNext]_vars

\* CompleteStream called on either client, with or without ForceJSON and a callback
InitStream ==
    /\ ChunkerIdle
    /\ MergerIdle
    /\ ValidatorIdle
    /\ NoOutput
    /\ CounterIdle
    /\ RenderIdle
    /\ ExtractIdle
    /\ calls = <<>>
    /\ clientImpl \in ClientImpls
    /\ cancelled = FALSE
    /\ sForceJSON \in BOOLEAN
    /\ sCallback \in {"nil", "set"}
    /\ sOpened = FALSE
    /\ sDeltas = <<>>
    /\ sContent = <<>>
    /\ sRet = [resp |-> <<>>, err |-> <<>>]
    /\ spc = "call"

SpecStream == InitStream /\ [][StreamNext]_vars

\* GetEstimatedChunkCount called on a Chunker with any budget, for any text
InitEstimate ==
    /\ text \in Texts
    /\ maxTokens \in Budgets
    /\ chunks = <<>>
    /\ remaining = <<>>
    /\ forced = {}
    /\ cerr = "none"
    /\ cpc = "idle"
    /\ calls = <<>>
    /\ RealClient
    /\ StreamIdle
    /\ MergerIdle
    /\ ValidatorIdle
    /\ NoOutput
    /\ ExtractIdle
    /\ gCount = 0
    /\ gpc = "call"
    /\ tText = <<>>
    /\ tOther = <<>>
    /\ tRet = [first |-> 0, again |-> 0, other |-> 0]
    /\ tpc = "idle"
    /\ RenderIdle

SpecEstimate == InitEstimate /\ [][GetEstimatedChunkCountCall]_vars

\* texts of letters and a few bytes of two-byte runes, well-formed or not
RuneTexts == UNION {TextsWith(n, MaxSpecial, RuneBytes) : n \in 0..MaxLen}

\* texts of ASCII letters only: byte length and rune count coincide
AsciiTexts == UNION {TextsWith(n, 0, {}) : n \in 0..MaxLen}

\* CountTokens called on any two texts
InitCountTokens ==
    /\ ChunkerIdle
    /\ calls = <<>>
    /\ RealClient
    /\ StreamIdle
    /\ MergerIdle
    /\ ValidatorIdle
    /\ NoOutput
    /\ ExtractIdle
    /\ gCount = 0
    /\ gpc = "idle"
    /\ tText \in RuneTexts
    /\ tOther \in AsciiTexts
    /\ tRet = [first |-> 0, again |-> 0, other |-> 0]
    /\ tpc = "call"
    /\ RenderIdle

SpecCountTokens == InitCountTokens /\ [][CountTokensCalls]_vars

(***************************************************************************)
\* inputs of Render: empty after trimming, within the smallest budget, and
\* oversized ones that a budget of 1 cuts into one and into two chunks
RenderInputs ==
    { <<" ">>,
      A(3),
      A(7) \o <<" ", " ">>,
      A(4) \o <<" ">> \o A(4) }

\* the flags a user can give to the render command
RenderFlagValues ==
    [saveJSON : {FALSE}, stats : BOOLEAN, stream : {TRUE}, noStream : BOOLEAN,
     noValidate : {TRUE}, validate : BOOLEAN, out : {""},
     chunkSize : {DefaultChunkSize} \cup Budgets,
     mergeStrategy : KnownStrategies, mergeInstructions : InstructionValues]

\* the RenderOptions a caller of the package can pass
RenderOptionValues ==
    [SaveJSON : BOOLEAN, OutputPath : {"", "out.md"}, ShowStats : BOOLEAN,
     StreamOutput : BOOLEAN, NoValidate : BOOLEAN, ChunkSize : {0} \cup Budgets,
     MergeStrategy : {""} \cup StrategyValues, MergeInstructions : {""}]

\* Render called by the render command (with the client llm.NewClient made), or
\* by a caller of the package with any options and either client
InitRender ==
    /\ ChunkerIdle
    /\ MergerIdle
    /\ ValidatorIdle
    /\ NoOutput
    /\ CounterIdle
    /\ ExtractIdle
    /\ StreamIdle
    /\ calls = <<>>
    /\ cancelled = FALSE
    /\ rInput \in RenderInputs
    /\ rChunkSize = 0
    /\ rData = ""
    /\ rMarkdown = ""
    /\ rRet = [result |-> <<>>, err |-> <<>>]
    /\ \/ /\ rCaller = "command"
          /\ clientImpl = "Client"
          /\ rFlags \in RenderFlagValues
          /\ rOptions = ZeroRenderOptions
          /\ rpc = "command"
       \/ /\ rCaller = "api"
          /\ clientImpl \in ClientImpls
          /\ rFlags = DefaultRenderFlags
          /\ rOptions \in RenderOptionValues
          /\ rpc = "call"

SpecRender == InitRender /\ [][RenderNext]_vars

(***************************************************************************)
(* Properties.                                                             *)
(***************************************************************************)
AllSpace(s) == \A i \in 1..Len(s) : IsSpace(s[i])

IsPrefix(p, s) == Len(p) <= Len(s) /\ SubSeq(s, 1, Len(p)) = p

RECURSIVE Reconstructs(_, _)
\* txt is the chunks cs in order, with nothing but whitespace before, between
\* and after them
Reconstructs(txt, cs) ==
    IF cs = <<>> THEN AllSpace(txt)
    ELSE \E k \in 0..Len(txt) :
           /\ AllSpace(SubSeq(txt, 1, k))
           /\ IsPrefix(cs[1], SubSeq(txt, k + 1, Len(txt)))
           /\ Reconstructs(SubSeq(txt, k + 1 + Len(cs[1]), Len(txt)), Tail(cs))

\* C1: for a text whose estimate exceeds the budget, the chunks ChunkText
\* returns, concatenated in order, are the original text up to whitespace at
\* the chunk boundaries: no non-whitespace byte is missing, added or reordered.
ChunksReconstructText ==
    (cpc = "done" /\ CountTokens(text) > maxTokens) => Reconstructs(text, chunks)

OverBudget == {i \in 1..Len(chunks) : CountTokens(chunks[i]) > maxTokens}

\* C2: every chunk ChunkText has produced has an estimate within the budget,
\* the only exception allowed being at most one chunk that forceSplit produced.
ChunksWithinBudget ==
    /\ OverBudget \subseteq forced
    /\ Cardinality(OverBudget) <= 1

\* ChunkText has returned several chunks, one cut by forceSplit and a later one
\* cut at a semantic boundary
ForcedAndSemanticChunks ==
    /\ cpc = "done"
    /\ Len(chunks) >= 3
    /\ 1 \in forced
    /\ 2 \notin forced

\* C3: for a text whose estimate is within the budget, ChunkText returns
\* exactly one chunk, the text itself untrimmed, and a nil error.
FittingTextIsOneChunk ==
    (cpc = "done" /\ CountTokens(text) <= maxTokens) =>
        (chunks = <<text>> /\ cerr = "nil")

\* ChunkText has returned for a fitting text of at least one token that starts
\* and ends with whitespace
FittingTextWithOuterSpace ==
    /\ cpc = "done"
    /\ CountTokens(text) <= maxTokens
    /\ CountTokens(text) >= 1
    /\ IsSpace(text[1])
    /\ IsSpace(text[Len(text)])

AllCallsSucceeded == \A i \in 1..Len(calls) : calls[i].ok

\* C4: when every provider call succeeds, ProcessChunks with the incremental
\* strategy has issued exactly n Complete calls for n >= 1 chunks when it returns,
\* and it returns a result.
IncrementalIssuesNCalls ==
    (/\ mpc = "done"
     /\ mOptions.Strategy = StrategyIncremental
     /\ Len(mChunks) >= 1
     /\ AllCallsSucceeded)
    => (Len(calls) = Len(mChunks) /\ mRet.err = <<>> /\ mRet.result # <<>>)

\* the incremental strategy has returned for the longest chunk sequence, every call
\* having succeeded
IncrementalCompleted ==
    /\ mpc = "done"
    /\ mOptions.Strategy = StrategyIncremental
    /\ Len(mChunks) = MaxChunks
    /\ AllCallsSucceeded
    /\ mRet.err = <<>>

\* C5: when every provider call succeeds, ProcessChunks with the two-pass or the
\* template-driven strategy has issued exactly n + 1 Complete calls for n > 1
\* chunks when it returns: n extraction calls, then one consolidation call.
TwoPassIssuesNPlusOneCalls ==
    (/\ mpc = "done"
     /\ mOptions.Strategy \in {StrategyTwoPass, StrategyTemplateDriven}
     /\ Len(mChunks) > 1
     /\ AllCallsSucceeded)
    => /\ Len(calls) = Len(mChunks) + 1
       /\ \A i \in 1..Len(mChunks) : calls[i].prompt.kind = "extraction"
       /\ calls[Len(calls)].prompt.kind = "consolidation"

\* the template-driven strategy has returned for two chunks, every call having succeeded
TemplateDrivenCompleted ==
    /\ mpc = "done"
    /\ mOptions.Strategy = StrategyTemplateDriven
    /\ Len(mChunks) = 2
    /\ AllCallsSucceeded
    /\ mRet.err = <<>>

NeverValidNeverFails ==
    \A i \in 1..Len(calls) : calls[i].ok /\ calls[i].content \notin ValidPayloads

\* C6: with a provider that never fails and never returns a schema-valid
\* payload, ValidateAndRetry with maxRetries = k issues exactly k + 1 calls and
\* then returns the exhaustion error with the payload of the last call and the
\* outcome of validating that payload.
ExhaustedAfterKPlusOneCalls ==
    NeverValidNeverFails =>
        /\ Len(calls) <= vMaxRetries + 1
        /\ (vpc = "done" =>
             /\ Len(calls) = vMaxRetries + 1
             /\ vRet.err = <<"validation failed after " \o ToString(vMaxRetries) \o " retries">>
             /\ vRet.data = <<calls[Len(calls)].content>>
             /\ vRet.result = <<Validate(calls[Len(calls)].content)>>)

\* ValidateAndRetry has used up two retries on payloads that differ from call to call
ExhaustedWithDistinctPayloads ==
    /\ vpc = "done"
    /\ vMaxRetries = 2
    /\ Len(calls) = 3
    /\ NeverValidNeverFails
    /\ calls[1].content # calls[3].content
    /\ calls[2].content # calls[3].content

\* C7: if the provider's first response is a schema-valid payload,
\* ValidateAndRetry issues exactly one call whatever maxRetries is, and returns
\* that payload with a Valid outcome and a nil error; no repair call is issued.
FirstValidMeansOneCall ==
    (Len(calls) >= 1 /\ calls[1].ok /\ calls[1].content \in ValidPayloads) =>
        /\ Len(calls) = 1
        /\ vpc = "done"
        /\ vRet = [data |-> <<calls[1].content>>,
                   result |-> <<[Valid |-> TRUE, Errors |-> <<>>]>>,
                   err |-> <<>>]

\* ValidateAndRetry has returned a first response that is valid, with retries allowed
ValidOnFirstAttempt ==
    /\ vpc = "done"
    /\ vMaxRetries = MaxRetries
    /\ Len(calls) = 1
    /\ calls[1].ok
    /\ calls[1].content \in ValidPayloads

\* C8: in ProcessChunks over more than one chunk, under any strategy, a failed
\* provider call is the last call: nothing is retried and nothing further is
\* issued, the returned result is nil and the returned error is not.
ProviderFailureAborts ==
    Len(mChunks) > 1 =>
        /\ \A i \in 1..(Len(calls) - 1) : calls[i].ok
        /\ ((Len(calls) >= 1 /\ ~calls[Len(calls)].ok) =>
             (mpc = "done" /\ mRet.result = <<>> /\ mRet.err # <<>>))

\* a provider call failed in the middle of a three-chunk operation, after a success
FailedMidway ==
    /\ Len(mChunks) = 3
    /\ Len(calls) = 2
    /\ calls[1].ok
    /\ ~calls[2].ok

Shown == stdout \o stderr \o fileOut

PayloadShown(data) ==
    \E i \in 1..Len(Shown) :
        Shown[i].what = "payload" /\ Shown[i].data \in {data, Indented(data)}

FindingsShown(result) ==
    \E i \in 1..Len(Shown) :
        Shown[i].what = "validation warning" /\ Shown[i].data = FormatErrors(result)

\* the extract command took the single-chunk path with validation and
\* ValidateAndRetry returned with the retries used up
RetriesExhausted ==
    /\ epc = "exit"
    /\ vpc = "done"
    /\ vRet.err # <<>>
    /\ vRet.data # <<>>

\* C9: when the retries are exhausted in the extract command, the command shows
\* its user both the last payload produced and the itemized validation findings.
ExhaustionShowsPayloadAndFindings ==
    RetriesExhausted =>
        (PayloadShown(vRet.data[1]) /\ FindingsShown(vRet.result[1]))

\* C10: an unknown merge strategy value is rejected before any provider call
\* is made, both by ProcessChunks for every non-empty chunk sequence and by the
\* extract command for every input.
UnknownStrategyIssuesNoCall ==
    (\/ (mpc # "idle" /\ mOptions.Strategy \notin KnownStrategies)
     \/ (epc # "idle" /\ flags.mergeStrategy \notin KnownStrategies))
    => calls = <<>>

\* C11: a chunk budget that is not positive makes the extract command fail
\* fast with a configuration error: no provider call is issued, the chunking
\* loop is never entered, and the command ends with the error exit status.
BadBudgetFailsFast ==
    (epc # "idle" /\ flags.chunkSize <= 0) =>
        /\ calls = <<>>
        /\ cpc \notin {"loop", "panic", "diverged"}
        /\ (epc = "exit" => exitCode = 1)

\* the extract command took the multi-chunk path with validation and the merged
\* payload failed the schema check, with at least one retry configured
MergedPayloadInvalid ==
    /\ epc = "exit"
    /\ mpc = "done"
    /\ mRet.err = <<>>
    /\ ~noValidate
    /\ exitCode = 3
    /\ flags.maxRetries >= 1

\* C12: in the multi-chunk path with validation enabled, a merged payload that
\* fails schema validation is put through the repair loop: a repair call is
\* issued to the provider before the failure is shown to the user.
MergedInvalidIsRepaired ==
    MergedPayloadInvalid => \E i \in 1..Len(calls) : calls[i].prompt.kind = "repair"

\* C13: with a budget of 10 tokens and a text of two paragraphs separated by
\* a blank line whose total estimate is 13 tokens, ChunkText returns exactly two
\* chunks, the first paragraph and the second paragraph (compared up to outer
\* whitespace), each with an estimate of at most 10.
TwoParagraphsSplitAtBlankLine ==
    (/\ cpc = "done"
     /\ maxTokens = 10
     /\ CountTokens(text) = 13
     /\ Len(Split(text, BlankLine)) = 2)
    => /\ Len(chunks) = 2
       /\ TrimSpace(chunks[1]) = Split(text, BlankLine)[1]
       /\ TrimSpace(chunks[2]) = Split(text, BlankLine)[2]
       /\ \A i \in 1..2 : CountTokens(chunks[i]) <= 10

\* C14: in every merge prompt and every consolidation prompt, empty
\* MergeOptions.Instructions give the default instruction text verbatim, and
\* non-empty ones give the custom text alone: the default is replaced, not
\* extended.
InstructionsReplaceDefault ==
    \A i \in 1..Len(calls) :
        /\ calls[i].prompt.kind = "merge" =>
             calls[i].prompt.instructions =
                 (IF mOptions.Instructions = ""
                  THEN DefaultMergeInstructions ELSE mOptions.Instructions)
        /\ calls[i].prompt.kind = "consolidation" =>
             calls[i].prompt.instructions =
                 (IF mOptions.Instructions = ""
                  THEN DefaultConsolidationInstructions ELSE mOptions.Instructions)

\* a merge call has been issued by a Merger with custom instructions
CustomInstructionsInMergePrompt ==
    /\ mOptions.Instructions # ""
    /\ \E i \in 1..Len(calls) : calls[i].prompt.kind = "merge"

\* C15: every provider call of the merge engine (extraction, merge,
\* consolidation) carries a prompt that embeds the complete schema text of the
\* Merger's spec, under every strategy and for every chunk.
EveryPromptEmbedsSchema ==
    mpc # "idle" => \A i \in 1..Len(calls) : calls[i].prompt.schema = mSpec.Schema

\* a consolidation call has been issued after two extractions for the spec without a title
ConsolidationIssuedForUntitledSpec ==
    /\ mSpec.Title = ""
    /\ Len(calls) = 3
    /\ calls[3].prompt.kind = "consolidation"

\* C16: in the incremental strategy the call for chunk i >= 1 follows the
\* returned call for chunk i - 1, its prompt holds exactly the payload that call
\* returned and the text of chunk i, and the result is the payload of the call
\* for the last chunk.
IncrementalCallsAreChained ==
    (mOptions.Strategy = StrategyIncremental /\ Len(mChunks) > 1) =>
        /\ \A i \in 2..Len(calls) :
              /\ calls[i - 1].ok
              /\ calls[i].prompt.kind = "merge"
              /\ calls[i].prompt.existing = calls[i - 1].content
              /\ calls[i].prompt.input = mChunks[i]
        /\ ((mpc = "done" /\ mRet.err = <<>>) =>
              /\ Len(calls) = Len(mChunks)
              /\ mRet.result[1].JSONData = calls[Len(calls)].content)

\* the incremental strategy has returned for three chunks whose calls returned
\* payloads that differ from one call to the next
IncrementalChainOfDistinctPayloads ==
    /\ mpc = "done"
    /\ mOptions.Strategy = StrategyIncremental
    /\ Len(mChunks) = 3
    /\ mRet.err = <<>>
    /\ calls[1].content # calls[2].content
    /\ calls[2].content # calls[3].content

\* C17: in the two-pass strategy over n > 1 chunks a consolidation call is
\* issued only as call n + 1, after the n extraction calls have all returned
\* successfully, its prompt lists their n payloads in chunk order labelled
\* 1 .. n, and a successful run has issued exactly that one consolidation call.
ConsolidationAfterAllExtractions ==
    (mOptions.Strategy = StrategyTwoPass /\ Len(mChunks) > 1) =>
        /\ \A i \in 1..Len(calls) :
              calls[i].prompt.kind = "consolidation" =>
                  /\ i = Len(mChunks) + 1
                  /\ \A j \in 1..Len(mChunks) :
                        /\ calls[j].ok
                        /\ calls[j].prompt.kind = "extraction"
                        /\ calls[j].prompt.input = mChunks[j]
                  /\ calls[i].prompt.results =
                        [j \in 1..Len(mChunks) |-> [label |-> j, json |-> calls[j].content]]
        /\ ((mpc = "done" /\ mRet.err = <<>>) =>
              /\ Len(calls) = Len(mChunks) + 1
              /\ calls[Len(calls)].prompt.kind = "consolidation")

\* the two-pass strategy has consolidated three extractions that returned
\* payloads differing from one chunk to the next
TwoPassConsolidatedDistinctPayloads ==
    /\ mpc = "done"
    /\ mOptions.Strategy = StrategyTwoPass
    /\ Len(mChunks) = 3
    /\ Len(calls) = 4
    /\ calls[1].content # calls[2].content
    /\ calls[2].content # calls[3].content

\* the prompt of call i of a two-pass run, given the calls before it
TwoPassPrompt(i) ==
    IF i <= Len(mChunks)
    THEN createExtractionPrompt(mSpec, mChunks[i])
    ELSE createConsolidationPrompt(mSpec, mOptions,
                                   [j \in 1..Len(mChunks) |-> calls[j].content])

\* what a two-pass run returns, given the calls it issued
TwoPassReturn ==
    LET k == Len(calls)
    IN IF ~calls[k].ok
       THEN IF k <= Len(mChunks)
            THEN [result |-> <<>>,
                  err |-> <<"failed to process chunk " \o ToString(k - 1),
                            "extraction failed", "OpenAI API error">>]
            ELSE [result |-> <<>>, err |-> <<"consolidation failed", "OpenAI API error">>]
       ELSE [result |-> <<[ChunkIndex |-> -1, Content |-> <<"consolidated">>,
                           JSONData |-> calls[k].content, Stats |-> k]>>,
             err |-> <<>>]

\* C18: over n > 1 chunks the template-driven strategy and the two-pass
\* strategy are the same function of the chunks, the options and the provider's
\* behaviour: the same prompts in the same order, the same result, the same
\* error, failures at any call included.
TemplateDrivenMatchesTwoPass ==
    (mOptions.Strategy \in {StrategyTwoPass, StrategyTemplateDriven} /\ Len(mChunks) > 1) =>
        /\ Len(calls) <= Len(mChunks) + 1
        /\ \A i \in 1..Len(calls) : calls[i].prompt = TwoPassPrompt(i)
        /\ \A i \in 1..(Len(calls) - 1) : calls[i].ok
        /\ (mpc = "done" <=>
              (Len(calls) >= 1 /\ (~calls[Len(calls)].ok \/ Len(calls) = Len(mChunks) + 1)))
        /\ (mpc = "done" => mRet = TwoPassReturn)

\* the template-driven strategy has returned after its consolidation call failed
TemplateConsolidationFailed ==
    /\ mpc = "done"
    /\ mOptions.Strategy = StrategyTemplateDriven
    /\ Len(mChunks) = 3
    /\ Len(calls) = 4
    /\ ~calls[4].ok

CancelledCalls == {i \in 1..Len(calls) : calls[i].ctxDone}

\* C19: every provider call of ProcessChunks and ValidateAndRetry is made with
\* the caller's context, and once that context is cancelled the pipeline aborts:
\* no call made with the cancelled context completes successfully, and an
\* operation that made such a call returns an error and no merged payload.
CancellationAborts ==
    /\ \A i \in CancelledCalls : ~calls[i].ok
    /\ ((mpc = "done" /\ CancelledCalls # {}) => (mRet.result = <<>> /\ mRet.err # <<>>))
    /\ ((vpc = "done" /\ CancelledCalls # {}) => vRet.err # <<>>)

\* C20: on every implementation of the client, CompleteStream called with
\* ForceJSON set returns an error at once: no stream is opened and the delta
\* callback is never invoked.
StreamWithForceJSONFailsFast ==
    (sForceJSON /\ spc \notin {"idle", "call"}) =>
        /\ spc = "done"
        /\ sRet.err # <<>>
        /\ sRet.resp = <<>>
        /\ ~sOpened
        /\ sDeltas = <<>>

\* the error main logged, as a set (empty when the command returned nil)
LoggedErrors == {stderr[i].data : i \in {j \in 1..Len(stderr) : stderr[j].what = "error"}}

\* errors about the arguments, the input or the set-up of the command
ArgumentErrors ==
    {<<"spec not found">>, <<"failed to read input">>, <<"input is empty">>,
     <<"failed to create LLM client">>, <<"failed to create validator">>,
     <<"failed to parse extracted JSON">>}
    \cup {<<"unknown merge strategy", st>> : st \in StrategyValues}

\* C24: the exit code of the extract command follows the documented mapping:
\* 0 on success, 2 when a provider call failed, 3 when the result failed schema
\* validation (exhausted repair retries included), 4 when writing the output
\* failed, and 1 only for invalid arguments or input.
ExitCodeFollowsMapping ==
    epc = "exit" =>
        /\ (exitCode = 0 <=> (LoggedErrors = {} /\ \E i \in 1..Len(Shown) : Shown[i].what = "payload"))
        /\ ((\E i \in 1..Len(calls) : ~calls[i].ok) => exitCode = 2)
        /\ (RetriesExhausted => exitCode = 3)
        /\ ((\E i \in 1..Len(stderr) : stderr[i].what = "validation warning") => exitCode = 3)
        /\ ((\E e \in LoggedErrors : e[1] = "failed to write output") => exitCode = 4)
        /\ (exitCode = 1 => LoggedErrors \subseteq ArgumentErrors)

\* C26: for every text and every budget >= 1, ChunkText terminates and
\* succeeds: it never panics, every iteration of its loop extracts a non-empty
\* chunk and strictly shortens the remaining text, and it returns a nil error
\* with at least one chunk.
ChunkTextTerminates ==
    /\ [](cpc \notin {"panic", "diverged"})
    /\ [](cpc = "loop" => \A i \in 1..Len(chunks) : chunks[i] # <<>>)
    /\ [][ChunkTextIterate => Len(remaining') < Len(remaining)]_vars
    /\ (cpc = "call") ~> (cpc = "done" /\ cerr = "nil" /\ Len(chunks) >= 1)

\* ChunkText has returned after two forced splits and a final remainder
TwoForcedSplits ==
    /\ cpc = "done"
    /\ cerr = "nil"
    /\ Len(chunks) = 3
    /\ forced = {1, 2}

\* the boundaries whose greedy accumulation on txt yields a non-empty chunk
Candidates(txt, max) ==
    {k \in 1..Len(boundaries) : tryBoundary(txt, boundaries[k], max).chunk # <<>>}

\* the coarsest of the candidates with a chunk of maximal length
BestCandidate(txt, max) ==
    CHOOSE k \in Candidates(txt, max) :
        \A j \in Candidates(txt, max) :
            LET ck == tryBoundary(txt, boundaries[k], max).chunk
                cj == tryBoundary(txt, boundaries[j], max).chunk
            IN Len(ck) > Len(cj) \/ (Len(ck) = Len(cj) /\ k <= j)

\* C27: in every iteration of the loop of ChunkText, findOptimalChunk returns
\* the chunk and the remainder of the coarsest boundary among those whose
\* accumulation gives a chunk of maximal length; a boundary whose first part
\* alone exceeds the budget gives no candidate; without any candidate the
\* iteration falls back to forceSplit.
LongestChunkCoarsestWins ==
    [][ChunkTextIterate =>
        /\ \A k \in 1..Len(boundaries) :
              CountTokens(Split(remaining, boundaries[k])[1]) > maxTokens
                  => k \notin Candidates(remaining, maxTokens)
        /\ IF Candidates(remaining, maxTokens) = {}
           THEN (Len(chunks) + 1) \in forced'
           ELSE LET r == tryBoundary(remaining,
                                     boundaries[BestCandidate(remaining, maxTokens)],
                                     maxTokens)
                IN /\ chunks' = Append(chunks, r.chunk)
                   /\ remaining' = r.rest
                   /\ findOptimalChunk(remaining, maxTokens) = r]_vars

\* the first iteration cut the text where two boundaries gave the same chunk
\* with different remainders, and the remainder of the coarser one was kept
TieBrokenByCoarsest ==
    /\ Len(chunks) = 1
    /\ cpc = "loop"
    /\ \E k1, k2 \in 1..Len(boundaries) :
         /\ k1 < k2
         /\ tryBoundary(text, boundaries[k1], maxTokens).chunk = chunks[1]
         /\ tryBoundary(text, boundaries[k2], maxTokens).chunk = chunks[1]
         /\ tryBoundary(text, boundaries[k1], maxTokens).rest = remaining
         /\ tryBoundary(text, boundaries[k2], maxTokens).rest # remaining

\* C30: ValidateAndRetry returns a nil error if and only if the outcome it
\* returns is Valid.  With a nil error the returned payload is the content of
\* the last call and it is the payload that validated; with an invalid or nil
\* outcome the error is non-nil.
NilErrorIffValid ==
    vpc = "done" =>
        /\ (vRet.err = <<>>) <=> (vRet.result # <<>> /\ vRet.result[1].Valid)
        /\ (vRet.err = <<>> =>
              /\ vRet.data = <<calls[Len(calls)].content>>
              /\ vRet.result = <<Validate(vRet.data[1])>>
              /\ vRet.data[1] \in ValidPayloads)
        /\ ((vRet.result = <<>> \/ ~vRet.result[1].Valid) => vRet.err # <<>>)

\* ValidateAndRetry has returned a nil error for a payload that a repair call produced
ValidAfterRepair ==
    /\ vpc = "done"
    /\ vRet.err = <<>>
    /\ Len(calls) = 2
    /\ calls[1].content \notin ValidPayloads
    /\ vRet.result[1].Valid

\* C29: a CompleteStream call of either implementation with a non-nil callback
\* that completes without error has invoked the callback once per non-empty
\* fragment, in arrival order, and the Content of the returned response is the
\* in-order concatenation of the fragments delivered to the callback.
StreamContentIsDeliveredText ==
    (spc = "done" /\ sCallback = "set" /\ sRet.err = <<>>) =>
        /\ \A i \in 1..Len(sDeltas) : sDeltas[i] # ""
        /\ clientImpl = "Client" => sDeltas = sContent
        /\ clientImpl = "MockClient" => sDeltas = MockWords
        /\ Concat(sRet.resp[1].Content) = Concat(sDeltas)

\* TokensUsed.TotalTokens of the response of one call, for a provider that
\* reports the same usage for every completed call (the figure of MockClient)
CallTotalTokens == 150
TotalTokens(call) == IF call.ok THEN CallTotalTokens ELSE 0

RECURSIVE SumTotalTokens(_)
SumTotalTokens(cs) ==
    IF cs = <<>> THEN 0 ELSE TotalTokens(Head(cs)) + SumTotalTokens(Tail(cs))

\* the calls whose responses the statistics of a ChunkResult hold: Stats is the
\* *llm.CompletionResponse of one call
StatsCalls(result) == {result.Stats}

\* C23: after a multi-chunk extraction the usage statistics handed back are
\* aggregated over all provider calls of the operation: the token count is the
\* sum over every extraction, merge and consolidation call, and the call count
\* is the number of provider calls issued.
StatsAggregateAllCalls ==
    (mpc = "done" /\ mRet.err = <<>> /\ Len(mChunks) > 1) =>
        /\ SumTotalTokens([k \in 1..Cardinality(StatsCalls(mRet.result[1])) |->
                              calls[mRet.result[1].Stats]])
             = SumTotalTokens(calls)
        /\ Cardinality(StatsCalls(mRet.result[1])) = Len(calls)

\* the ceiling of e / b for e >= 0 and b >= 1: the least n with n * b >= e
Ceiling(e, b) == CHOOSE n \in 0..e : n * b >= e /\ \A m \in 0..e : m * b >= e => n <= m

\* C21 as stated: for every text and every budget >= 1, GetEstimatedChunkCount
\* returns the ceiling of CountTokens(text) / budget.
EstimateIsCeiling ==
    gpc = "done" => gCount = Ceiling(CountTokens(text), maxTokens)

\* C21, amended: GetEstimatedChunkCount returns 1 for a text whose estimate is
\* within the budget (the empty text and texts of fewer than four characters
\* included), and the ceiling of CountTokens(text) / budget otherwise.
EstimateIsCeilingOrOne ==
    gpc = "done" =>
        gCount = IF CountTokens(text) <= maxTokens THEN 1
                 ELSE Ceiling(CountTokens(text), maxTokens)

\* GetEstimatedChunkCount has returned 1 for a text whose estimate is 0
EstimateOfShortTextIsOne ==
    /\ gpc = "done"
    /\ Len(text) \in 1..3
    /\ CountTokens(text) = 0
    /\ gCount = 1

\* C22: CountTokens is a non-negative, stable and monotonic function of the
\* number of runes of its input: two calls on the same text give the same
\* estimate, two texts of the same rune count have the same estimate whatever
\* their byte lengths, and a text with no more runes than another has an
\* estimate no greater.
CountTokensMonotoneInRunes ==
    tpc = "done" =>
        /\ tRet.first >= 0 /\ tRet.other >= 0
        /\ tRet.again = tRet.first
        /\ (RuneCountInString(tText) = RuneCountInString(tOther) => tRet.first = tRet.other)
        /\ (RuneCountInString(tText) <= RuneCountInString(tOther) => tRet.first <= tRet.other)
        /\ (RuneCountInString(tOther) <= RuneCountInString(tText) => tRet.other <= tRet.first)

\* CountTokens has given the same estimate for eight bytes that hold seven
\* runes and for seven ASCII letters, one token short of what eight letters get
SameRunesDifferentBytes ==
    /\ tpc = "done"
    /\ Len(tText) = 8
    /\ RuneCountInString(tText) = 7
    /\ Len(tOther) = 7
    /\ tRet.first = tRet.other
    /\ tRet.first = 1

\* C25: the render command honours its chunking flags: once the extraction
\* step of a render run has fixed its budget, the budget, the merge strategy and
\* the merge instructions it uses are the values given with --chunk-size,
\* --merge-strategy and --merge-instructions, so an input over the budget given
\* is chunked and merged under the strategy given.
RenderHonoursChunkFlags ==
    (rCaller = "command" /\ rChunkSize # 0) =>
        /\ rChunkSize = rFlags.chunkSize
        /\ renderStrategy(rOptions) = rFlags.mergeStrategy
        /\ rOptions.MergeInstructions = rFlags.mergeInstructions
        /\ (CountTokens(rInput) > rFlags.chunkSize => rpc # "single")
        /\ (mpc # "idle" =>
              /\ mOptions.Strategy = rFlags.mergeStrategy
              /\ mOptions.Instructions = rFlags.mergeInstructions)

\* the provider call of the verbalization step has failed
VerbalizationFailed ==
    \/ /\ calls # <<>>
       /\ calls[Len(calls)].prompt.kind = "verbalization"
       /\ ~calls[Len(calls)].ok
    \/ /\ rpc \in {"streaming", "done", "exit"}
       /\ spc = "done"
       /\ sRet.err # <<>>

\* C28: when the provider call of the verbalization step fails, Render returns
\* a non-nil error (and no result) to its caller, in the streaming and in the
\* non-streaming mode; it never crashes on the absent response.
VerbalizationFailureIsReturned ==
    /\ rpc # "panic"
    /\ (VerbalizationFailed /\ rpc \in {"done", "exit"}) =>
          /\ rRet.err # <<>>
          /\ rRet.result = <<>>

====
